---- MODULE Spec2Model ----
(***************************************************************************)
(* tasklog: the pomodoro session runtime (handlers.rs control_terminal,    *)
(* helper.rs run_timer_thread / run_event_thread / draw_ui), the session   *)
(* store (repository.rs add_pomodoro / update_pomodoro) and the task       *)
(* listing (handlers.rs handle_ls, repository.rs get_tasks).               *)
(*                                                                         *)
(* Spec     : one run of `tasklog pomo` against a database earlier runs    *)
(*            may have written: the Coordinator (main thread), the Clock   *)
(*            (timer thread) and the Watcher (event thread) interleave one *)
(*            channel operation at a time.                                 *)
(* FairSpec : Spec with weak fairness of every thread (the OS schedules    *)
(*            every runnable thread).                                      *)
(* SpecLs   : the task commands (handle_ls, handle_done, handel_add_task,  *)
(*            handle_analyze) over small tables of tasks.                  *)
(* SpecRepo : add_pomodoro, update_pomodoro and get_pomodoro called        *)
(*            directly, one after the other, on an empty session table.    *)
(* SpecCmd  : one run of tasklog, either a session or task commands.       *)
(***************************************************************************)
EXTENDS Integers, Sequences, FiniteSets, TLC

(***************************************************************************)
(* Bounds of the model.                                                    *)
(***************************************************************************)
\* longest countdown, in whole seconds
MaxSeconds == 2
\* resize notifications the terminal delivers during one run
MaxResize == 2
\* the wall clock reads 1 when the session is inserted and 1..MaxNow when it
\* is finalized (0 is the epoch, the default of a DateTime field clap skips)
MaxNow == 2

(***************************************************************************)
(* Program constants.                                                      *)
(***************************************************************************)
\* helper.rs: const BOX_WIDTH:u16=40
BOX_WIDTH == 40
\* helper.rs: const BOX_HEIGHT:u16 = 4
BOX_HEIGHT == 4
\* helper.rs run_timer_thread: for _ in 0..10 (ten 100 ms slices per second)
SleepSlices == 10

\* terminal dimensions the terminal reports (size query, resize events)
TermSizes == {<<80, 24>>, <<30, 3>>}

\* durations a user can request, in milliseconds (DurationField)
DurationInputs == {0, 500} \cup {1000 * k : k \in 1..MaxSeconds}
\* titles a user can pass
TitleInputs == {"", "focus"}

VARIABLES
    pc,             \* position of the main thread in handle_pomodoro / control_terminal
    result,         \* what handle_pomodoro returned: "none" while running, "Ok", or the failing call
    term,           \* the terminal: raw mode, alternate screen, cursor, last frame, number of repaints
    app_state,      \* AppState of control_terminal
    pomo_task,      \* the PomoTask record handle_pomodoro owns
    pomodoro,       \* the pomodoro table: a sequence of rows, row i has id i
    now,            \* the last reading of Local::now()
    time_update,    \* mpsc channel Clock -> Coordinator
    event,          \* mpsc channel Watcher -> Coordinator
    timer_quit,     \* mpsc channel Coordinator -> Clock (number of pending stop signals)
    event_thread_quit, \* mpsc channel Coordinator -> Watcher
    timer,          \* the timer thread: pc, current_duration, slice
    watcher,        \* the event thread: pc
    hist,           \* history: what the Watcher reported and what the Coordinator handled
    tasks,          \* the tasks table: a sequence of rows, row i has id i
    today,          \* Local::now() of a listing: day of the month, days in the month
    cmd,            \* the command of SpecLs that ran last: arguments, outcome, query, rows
    call            \* the repository function SpecRepo called last: argument, result

session_vars == <<pc, result, term, app_state, pomo_task, pomodoro, now, time_update, event,
                  timer_quit, event_thread_quit, timer, watcher, hist>>

task_vars == <<tasks, today, cmd>>

\* what the actions of a pomodoro session leave alone, and those of a task command
non_session_vars == <<task_vars, call>>
non_task_vars == <<session_vars, call>>

vars == <<session_vars, task_vars, call>>

(***************************************************************************)
(* models.rs                                                               *)
(***************************************************************************)
\* PomoStatus::to_usize
PomoStatus_to_usize(s) ==
    CASE s = "Paused" -> 1
      [] s = "Finished" -> 2
      [] s = "Running" -> 0

\* PomoStatus::from_usize
PomoStatus_from_usize(n) ==
    CASE n = 0 -> "Running"
      [] n = 1 -> "Paused"
      [] n = 2 -> "Finished"
      [] OTHER -> "Running"

\* PomoTask::validate: duration zero or blank title is rejected
PomoTask_validate(p) ==
    IF p.duration = 0 THEN "Duration cannot be 0"
    ELSE IF p.title = "" THEN "Title cannot be empty"
    ELSE "Ok"

\* chrono::Duration::num_seconds: whole seconds, rounded towards zero
num_seconds(ms) == IF ms >= 0 THEN ms \div 1000 ELSE -((-ms) \div 1000)

\* the modulus of the cast `as u64`: 2^64 in the program, 2^30 here, where
\* integers are narrower; every duration of the model is far below it
U64 == 1073741824

\* n as u64: a negative i64 wraps around
as_u64(n) == (n + U64) % U64

\* DurationField::to_time_duration: Duration::from_secs(num_seconds() as u64)
to_time_duration(ms) == as_u64(num_seconds(ms))

\* DurationField::to_i64: milliseconds below one second, whole seconds from there
DurationField_to_i64(ms) == IF ms < 1000 THEN ms ELSE ms \div 1000

\* PomoType::to_usize, PomoType::from_usize
PomoType_to_usize(t) ==
    CASE t = "Rest" -> 0
      [] t = "Work" -> 1

\* mutant of PomoType_from_usize: decoding by the declared discriminants
\* (Rest = 1, Work = 0)
PomoType_from_usize_Discriminant(n) == IF n = 1 THEN "Rest" ELSE "Work"

PomoType_from_usize(n) == IF n = 0 THEN "Rest" ELSE "Work"

\* Option<T>
None == <<>>
Some(x) == <<x>>

\* PomoTask as clap builds it: the skipped fields take their defaults
NewPomoTask(title, duration) ==
    [id |-> 0, status |-> "Running", pomo_type |-> "Work", title |-> title,
     duration |-> duration, category |-> None, start_time |-> 0, end_time |-> 0]

(***************************************************************************)
(* helper.rs draw_ui: where the box goes, and the frame painted.           *)
(***************************************************************************)
\* u16 arithmetic: a subtraction that goes below zero wraps around
U16 == 65536
sub_u16(a, b) == (a - b + U16) % U16

\* mutant of box_start_col: the subtraction without the test before it
box_start_col_Unguarded(term_width) == sub_u16(term_width, BOX_WIDTH) \div 2

box_start_col(term_width) ==
    IF term_width >= BOX_WIDTH THEN sub_u16(term_width, BOX_WIDTH) \div 2 ELSE 0

box_start_row(term_height) ==
    IF term_height >= BOX_HEIGHT THEN sub_u16(term_height, BOX_HEIGHT) \div 2 ELSE 0

Frame(state) ==
    [col |-> box_start_col(state.term_width),
     row |-> box_start_row(state.term_height),
     width |-> state.term_width,
     height |-> state.term_height,
     secs |-> state.current_time]

\* draw_ui(stdout, state): ok says whether the terminal accepted the writes
draw_ui(t, state, ok) ==
    IF ok THEN [t EXCEPT !.frame = Frame(state), !.redraws = @ + 1]
    ELSE t

(***************************************************************************)
(* repository.rs: the pomodoro table.                                      *)
(***************************************************************************)
\* a TIMESTAMP column holds NULL or one instant
NULL == <<>>
Instant(t) == <<t>>

\* INSERT_POMO ... RETURNING id: the row add_pomodoro inserts
InsertedRow(p, start_time) ==
    [id |-> Len(pomodoro) + 1, type |-> PomoType_to_usize(p.pomo_type),
     title |-> p.title, duration |-> DurationField_to_i64(p.duration),
     status |-> PomoStatus_to_usize(p.status), category |-> p.category,
     start_time |-> start_time, end_time |-> NULL]

\* mutant of UpdatedTable: the UPDATE without its WHERE clause
UpdatedTable_NoWhere(table, p) ==
    [i \in DOMAIN table |->
        [table[i] EXCEPT !.status = PomoStatus_to_usize(p.status),
                         !.end_time = Instant(p.end_time)]]

\* mutant of UpdatedTable: the UPDATE also sets the duration column
UpdatedTable_SetsDuration(table, p) ==
    [i \in DOMAIN table |->
        IF table[i].id = p.id
        THEN [table[i] EXCEPT !.status = PomoStatus_to_usize(p.status),
                              !.end_time = Instant(p.end_time),
                              !.duration = DurationField_to_i64(p.duration)]
        ELSE table[i]]

\* UPDATE_POMODORO: SET status, end_time WHERE id = :id
UpdatedTable(table, p) ==
    [i \in DOMAIN table |->
        IF table[i].id = p.id
        THEN [table[i] EXCEPT !.status = PomoStatus_to_usize(p.status),
                              !.end_time = Instant(p.end_time)]
        ELSE table[i]]

\* mutant of FinalStatus: the two branches exchanged
FinalStatus_Exchanged(state) == IF state.quited THEN "Finished" ELSE "Paused"

\* the status control_terminal decides on (handlers.rs 223-227)
FinalStatus(state) == IF state.quited THEN "Paused" ELSE "Finished"

\* mutant of ResizedState: only the width is taken from the event
ResizedState_WidthOnly(state, msg) == [state EXCEPT !.term_width = msg.width]

\* app_state.term_width = new_width; app_state.term_height = new_height
ResizedState(state, msg) ==
    [state EXCEPT !.term_width = msg.width, !.term_height = msg.height]

\* mutant of TimeIsUp: the zero report does not end the loop
TimeIsUp_Never(state) == FALSE

\* if app_state.current_time == Duration::ZERO { break; }  (handlers.rs 185-189)
\* mutant of TimeIsUp: the last second counts as up
TimeIsUp_LastSecond(state) == state.current_time <= 1

TimeIsUp(state) == state.current_time = 0

\* mutant of NextDuration: two seconds are taken off per tick
NextDuration_TwoSeconds(d) == IF d >= 2 THEN d - 2 ELSE 0

\* current_duration.saturating_sub(Duration::from_secs(1))
NextDuration(d) == IF d >= 1 THEN d - 1 ELSE 0

(***************************************************************************)
(* Initial state: the process has parsed `tasklog pomo`, nothing has run.  *)
(***************************************************************************)
NoFrame == [col |-> 0, row |-> 0, width |-> 0, height |-> 0, secs |-> 0]

TermInit == [raw |-> FALSE, alt |-> FALSE, cursor_hidden |-> FALSE,
             frame |-> NoFrame, redraws |-> 0]

AppStateInit == [term_width |-> 0, term_height |-> 0, current_time |-> 0, quited |-> FALSE]

TimerInit == [pc |-> "unspawned", current_duration |-> 0, slice |-> 0]

\* poll_failed: event::poll returned Err in the pass of the loop the Watcher
\* has just made (unwrap_or(false) turns it into "no event")
WatcherInit == [pc |-> "unspawned", poll_failed |-> FALSE]

\* reported: Resize events the Watcher sent; handled: Resize events the
\* Coordinator redrew for; quit_sent: the Watcher sent a Quit; both_pending:
\* an iteration of the control loop started with a Quit in the Watcher's
\* channel and the zero report in the Clock's; reports: the values the Clock
\* has sent, in order; quit_before_zero: the Watcher had sent its Quit when
\* the Clock sent its zero report
HistInit ==
    [reported |-> 0, handled |-> 0, quit_sent |-> FALSE, both_pending |-> FALSE,
     reports |-> <<>>, quit_before_zero |-> FALSE]

ProcessInit ==
    /\ pc = "start"
    /\ result = "none"
    /\ term = TermInit
    /\ app_state = AppStateInit
    /\ time_update = <<>>
    /\ event = <<>>
    /\ timer_quit = 0
    /\ event_thread_quit = 0
    /\ timer = TimerInit
    /\ watcher = WatcherInit
    /\ hist = HistInit

\* what earlier runs of the pomo command left in the table: nothing, a
\* session finalized as Finished, or one finalized as Paused
PriorRow(status) ==
    [id |-> 1, type |-> PomoType_to_usize("Work"), title |-> "earlier",
     duration |-> 1500, status |-> PomoStatus_to_usize(status), category |-> NULL,
     start_time |-> 1, end_time |-> Instant(1)]

PriorTables == {<<>>, <<PriorRow("Finished")>>, <<PriorRow("Paused")>>}

\* no task command has run
NoQuery == [sql |-> "none"]
NoCommand ==
    [name |-> "none", args |-> <<>>, outcome |-> "none", error |-> "",
     query |-> NoQuery, rows |-> <<>>]

TasksIdle ==
    /\ tasks = <<>>
    /\ today = [day |-> 1, days_in_month |-> 30]
    /\ cmd = NoCommand

\* no repository function has been called
NoCall == [fn |-> "none", arg |-> <<>>, res |-> "none", out |-> <<>>]

Init ==
    /\ ProcessInit
    /\ pomo_task \in {NewPomoTask(t, d) : t \in TitleInputs, d \in DurationInputs}
    /\ pomodoro \in PriorTables
    /\ now = 1
    /\ TasksIdle
    /\ call = NoCall

\* the main thread is inside control_terminal's channels' lifetime
InControl == pc \in {"spawn_timer", "spawn_event", "first_draw", "events", "time",
                     "send_timer_quit", "send_event_quit", "join_timer", "join_event",
                     "leave_alt", "disable_raw", "finalize"}

\* the receivers time_update_rx / event_rx and the senders timer_quit_tx /
\* event_thread_quit_tx are locals of control_terminal: dropped when it returns
MainAlive == pc # "returned"

Return(r) == /\ pc' = "returned"
             /\ result' = r

(***************************************************************************)
(* handlers.rs handle_pomodoro (101-110)                                   *)
(***************************************************************************)
\* pomo_task.validate()?
Validate ==
    /\ pc = "start"
    /\ IF PomoTask_validate(pomo_task) = "Ok"
       THEN pc' = "add_pomodoro" /\ result' = result
       ELSE Return("Err_validate")
    /\ UNCHANGED <<term, app_state, pomo_task, pomodoro, now, time_update, event,
                   timer_quit, event_thread_quit, timer, watcher, hist>>
    /\ UNCHANGED non_session_vars

\* mutant of AddPomodoro: the error of add_pomodoro is dropped and the
\* handler goes on to the terminal
AddPomodoro_ErrorDropped ==
    /\ pc = "add_pomodoro"
    /\ \/ LET start_time == now IN
            /\ pomodoro' = Append(pomodoro, InsertedRow(pomo_task, start_time))
            /\ pomo_task' = [pomo_task EXCEPT !.id = Len(pomodoro) + 1,
                                              !.start_time = start_time]
       \/ UNCHANGED <<pomodoro, pomo_task>>
    /\ pc' = "clear_screen"
    /\ result' = result
    /\ UNCHANGED <<now, term, app_state, time_update, event, timer_quit, event_thread_quit,
                   timer, watcher, hist>>
    /\ UNCHANGED non_session_vars

\* repository::add_pomodoro(&mut pomo_value)?  (repository.rs 288-319)
AddPomodoro ==
    /\ pc = "add_pomodoro"
    /\ \/ LET start_time == now IN
            /\ pomodoro' = Append(pomodoro, InsertedRow(pomo_task, start_time))
            /\ pomo_task' = [pomo_task EXCEPT !.id = Len(pomodoro) + 1,
                                              !.start_time = start_time]
            /\ pc' = "clear_screen"
            /\ result' = result
       \/ /\ Return("Err_add_pomodoro")
          /\ UNCHANGED <<pomodoro, pomo_task>>
    /\ UNCHANGED <<now, term, app_state, time_update, event, timer_quit, event_thread_quit,
                   timer, watcher, hist>>
    /\ UNCHANGED non_session_vars

\* helper::clear_terminal_screen()?
ClearScreen ==
    /\ pc = "clear_screen"
    /\ \/ pc' = "enable_raw" /\ result' = result
       \/ Return("Err_clear_screen")
    /\ UNCHANGED <<term, app_state, pomo_task, pomodoro, now, time_update, event,
                   timer_quit, event_thread_quit, timer, watcher, hist>>
    /\ UNCHANGED non_session_vars

(***************************************************************************)
(* handlers.rs control_terminal (112-230): set-up                          *)
(***************************************************************************)
\* terminal::enable_raw_mode()?  (116)
EnableRawMode ==
    /\ pc = "enable_raw"
    /\ \/ /\ term' = [term EXCEPT !.raw = TRUE]
          /\ pc' = "enter_alt" /\ result' = result
       \/ /\ Return("Err_enable_raw")
          /\ term' = term
    /\ UNCHANGED <<app_state, pomo_task, pomodoro, now, time_update, event,
                   timer_quit, event_thread_quit, timer, watcher, hist>>
    /\ UNCHANGED non_session_vars

\* execute!(stdout, EnterAlternateScreen, cursor::Hide)?  (118)
EnterAlternateScreen ==
    /\ pc = "enter_alt"
    /\ \/ /\ term' = [term EXCEPT !.alt = TRUE, !.cursor_hidden = TRUE]
          /\ pc' = "size" /\ result' = result
       \/ /\ Return("Err_enter_alt")
          /\ term' = term
    /\ UNCHANGED <<app_state, pomo_task, pomodoro, now, time_update, event,
                   timer_quit, event_thread_quit, timer, watcher, hist>>
    /\ UNCHANGED non_session_vars

\* initial_duration (120), terminal::size()? (122), AppState (124-130)
TerminalSize ==
    /\ pc = "size"
    /\ \/ \E sz \in TermSizes :
            /\ app_state' = [term_width |-> sz[1], term_height |-> sz[2],
                             current_time |-> to_time_duration(pomo_task.duration),
                             quited |-> FALSE]
            /\ pc' = "spawn_timer" /\ result' = result
       \/ /\ Return("Err_size")
          /\ app_state' = app_state
    /\ UNCHANGED <<term, pomo_task, pomodoro, now, time_update, event,
                   timer_quit, event_thread_quit, timer, watcher, hist>>
    /\ UNCHANGED non_session_vars

\* thread::spawn(run_timer_thread(initial_duration, ..))  (138-143)
SpawnTimer ==
    /\ pc = "spawn_timer"
    /\ timer' = [pc |-> "top", current_duration |-> to_time_duration(pomo_task.duration),
                 slice |-> 0]
    /\ pc' = "spawn_event"
    /\ UNCHANGED <<result, term, app_state, pomo_task, pomodoro, now, time_update, event,
                   timer_quit, event_thread_quit, watcher, hist>>
    /\ UNCHANGED non_session_vars

\* thread::spawn(run_event_thread(..))  (145-150)
SpawnEvent ==
    /\ pc = "spawn_event"
    /\ watcher' = [pc |-> "top", poll_failed |-> FALSE]
    /\ pc' = "first_draw"
    /\ UNCHANGED <<result, term, app_state, pomo_task, pomodoro, now, time_update, event,
                   timer_quit, event_thread_quit, timer, hist>>
    /\ UNCHANGED non_session_vars

\* draw_ui(&mut stdout, &app_state)?  (152)
FirstDraw ==
    /\ pc = "first_draw"
    /\ \E ok \in BOOLEAN :
         /\ term' = draw_ui(term, app_state, ok)
         /\ IF ok THEN pc' = "events" /\ result' = result
            ELSE Return("Err_draw")
    /\ UNCHANGED <<app_state, pomo_task, pomodoro, now, time_update, event,
                   timer_quit, event_thread_quit, timer, watcher, hist>>
    /\ UNCHANGED non_session_vars

(***************************************************************************)
(* mpsc channels.                                                          *)
(***************************************************************************)
\* Receiver::try_recv on a channel holding `ch` whose senders are alive or not
try_recv(ch, senders_alive) ==
    IF ch # <<>> THEN [kind |-> "Ok", msg |-> Head(ch)]
    ELSE IF senders_alive THEN [kind |-> "Empty"]
    ELSE [kind |-> "Disconnected"]

QuitEvent == [type |-> "Quit"]
ResizeEvent(sz) == [type |-> "Resize", width |-> sz[1], height |-> sz[2]]

\* a Quit is somewhere in the Watcher's channel; the zero report in the Clock's
QuitPending == \E i \in DOMAIN event : event[i].type = "Quit"
ZeroPending == \E i \in DOMAIN time_update : time_update[i] = 0

(***************************************************************************)
(* handlers.rs control_terminal: the control loop (154-207)                *)
(***************************************************************************)
\* leaving the loop: the next statement is timer_quit_tx.send(())  (209)
Break == pc' = "send_timer_quit" /\ result' = result

\* match event_rx.try_recv()  (159-178); control_terminal keeps event_tx,
\* so the channel's senders are alive for as long as the loop runs
CheckEvents ==
    /\ pc = "events"
    /\ LET r == try_recv(event, MainAlive)
           h == [hist EXCEPT !.both_pending = @ \/ (QuitPending /\ ZeroPending)]
       IN
       CASE r.kind = "Ok" /\ r.msg.type = "Quit" ->
              /\ app_state' = [app_state EXCEPT !.quited = TRUE]
              /\ event' = Tail(event)
              /\ Break
              /\ hist' = h
              /\ term' = term
         [] r.kind = "Ok" /\ r.msg.type = "Resize" ->
              /\ app_state' = ResizedState(app_state, r.msg)
              /\ event' = Tail(event)
              /\ \E ok \in BOOLEAN :
                   /\ term' = draw_ui(term, app_state', ok)
                   /\ IF ok
                      THEN /\ pc' = "time" /\ result' = result
                           /\ hist' = [h EXCEPT !.handled = @ + 1]
                      ELSE /\ Return("Err_draw")
                           /\ hist' = h
         [] r.kind = "Empty" ->
              /\ pc' = "time" /\ result' = result
              /\ hist' = h
              /\ UNCHANGED <<app_state, event, term>>
         [] r.kind = "Disconnected" ->
              /\ app_state' = [app_state EXCEPT !.quited = TRUE]
              /\ Break
              /\ hist' = h
              /\ UNCHANGED <<event, term>>
    /\ UNCHANGED <<pomo_task, pomodoro, now, time_update, timer_quit, event_thread_quit,
                   timer, watcher>>
    /\ UNCHANGED non_session_vars

\* match time_update_rx.try_recv()  (181-202), then thread::sleep(50 ms)  (206)
CheckTime ==
    /\ pc = "time"
    /\ LET r == try_recv(time_update, MainAlive) IN
       CASE r.kind = "Ok" ->
              /\ app_state' = [app_state EXCEPT !.current_time = r.msg]
              /\ time_update' = Tail(time_update)
              /\ \E ok \in BOOLEAN :
                   /\ term' = draw_ui(term, app_state', ok)
                   /\ IF ~ok THEN Return("Err_draw")
                      ELSE IF TimeIsUp(app_state') THEN Break
                      ELSE pc' = "events" /\ result' = result
         [] r.kind = "Empty" ->
              /\ pc' = "events" /\ result' = result
              /\ UNCHANGED <<app_state, time_update, term>>
         [] r.kind = "Disconnected" ->
              /\ Break
              /\ UNCHANGED <<app_state, time_update, term>>
    /\ UNCHANGED <<pomo_task, pomodoro, now, event, timer_quit, event_thread_quit,
                   timer, watcher, hist>>
    /\ UNCHANGED non_session_vars

(***************************************************************************)
(* handlers.rs control_terminal: shutdown (209-230)                        *)
(***************************************************************************)
\* let _ = timer_quit_tx.send(());  the send fails when the Clock has dropped quit_rx
SendTimerQuit ==
    /\ pc = "send_timer_quit"
    /\ timer_quit' = IF timer.pc # "done" THEN timer_quit + 1 ELSE timer_quit
    /\ pc' = "send_event_quit"
    /\ UNCHANGED <<result, term, app_state, pomo_task, pomodoro, now, time_update, event,
                   event_thread_quit, timer, watcher, hist>>
    /\ UNCHANGED non_session_vars

\* mutant of SendEventQuit: the Watcher is not told to stop
SendEventQuit_Skipped ==
    /\ pc = "send_event_quit"
    /\ pc' = "join_timer"
    /\ UNCHANGED <<result, term, app_state, pomo_task, pomodoro, now, time_update, event,
                   timer_quit, event_thread_quit, timer, watcher, hist>>
    /\ UNCHANGED non_session_vars

\* let _ = event_thread_quit_tx.send(());
SendEventQuit ==
    /\ pc = "send_event_quit"
    /\ event_thread_quit' = IF watcher.pc # "done" THEN event_thread_quit + 1
                            ELSE event_thread_quit
    /\ pc' = "join_timer"
    /\ UNCHANGED <<result, term, app_state, pomo_task, pomodoro, now, time_update, event,
                   timer_quit, timer, watcher, hist>>
    /\ UNCHANGED non_session_vars

\* mutant of JoinTimer: the join does not wait for the timer thread
JoinTimer_NoWait ==
    /\ pc = "join_timer"
    /\ pc' = "join_event"
    /\ UNCHANGED <<result, term, app_state, pomo_task, pomodoro, now, time_update, event,
                   timer_quit, event_thread_quit, timer, watcher, hist>>
    /\ UNCHANGED non_session_vars

\* let _ = timer_handle.join();  returns once the timer thread has finished
JoinTimer ==
    /\ pc = "join_timer"
    /\ timer.pc = "done"
    /\ pc' = "join_event"
    /\ UNCHANGED <<result, term, app_state, pomo_task, pomodoro, now, time_update, event,
                   timer_quit, event_thread_quit, timer, watcher, hist>>
    /\ UNCHANGED non_session_vars

\* mutant of JoinEvent: the join does not wait for the event thread
JoinEvent_NoWait ==
    /\ pc = "join_event"
    /\ pc' = "leave_alt"
    /\ UNCHANGED <<result, term, app_state, pomo_task, pomodoro, now, time_update, event,
                   timer_quit, event_thread_quit, timer, watcher, hist>>
    /\ UNCHANGED non_session_vars

\* let _ = event_handle.join();
JoinEvent ==
    /\ pc = "join_event"
    /\ watcher.pc = "done"
    /\ pc' = "leave_alt"
    /\ UNCHANGED <<result, term, app_state, pomo_task, pomodoro, now, time_update, event,
                   timer_quit, event_thread_quit, timer, watcher, hist>>
    /\ UNCHANGED non_session_vars

\* execute!(stdout, LeaveAlternateScreen, cursor::Show)?  (217)
LeaveAlternateScreen ==
    /\ pc = "leave_alt"
    /\ \/ /\ term' = [term EXCEPT !.alt = FALSE, !.cursor_hidden = FALSE]
          /\ pc' = "disable_raw" /\ result' = result
       \/ /\ Return("Err_leave_alt")
          /\ term' = term
    /\ UNCHANGED <<app_state, pomo_task, pomodoro, now, time_update, event,
                   timer_quit, event_thread_quit, timer, watcher, hist>>
    /\ UNCHANGED non_session_vars

\* terminal::disable_raw_mode()?  (219)
DisableRawMode ==
    /\ pc = "disable_raw"
    /\ \/ /\ term' = [term EXCEPT !.raw = FALSE]
          /\ pc' = "finalize" /\ result' = result
       \/ /\ Return("Err_disable_raw")
          /\ term' = term
    /\ UNCHANGED <<app_state, pomo_task, pomodoro, now, time_update, event,
                   timer_quit, event_thread_quit, timer, watcher, hist>>
    /\ UNCHANGED non_session_vars

\* repository::update_pomodoro(pomo)  (repository.rs 321-340): the connection
\* can fail; any executed UPDATE reports Ok, whatever the number of rows
update_pomodoro(table, p, store_ok) ==
    IF store_ok THEN [table |-> UpdatedTable(table, p), res |-> "Ok"]
    ELSE [table |-> table, res |-> "Err_update"]

\* pomo_task.end_time = Local::now(); status; repository::update_pomodoro  (221-229)
Finalize ==
    /\ pc = "finalize"
    /\ \E end_time \in now..MaxNow, store_ok \in BOOLEAN :
         LET p == [pomo_task EXCEPT !.end_time = end_time,
                                    !.status = FinalStatus(app_state)]
             u == update_pomodoro(pomodoro, p, store_ok)
         IN /\ now' = end_time
            /\ pomo_task' = p
            /\ pomodoro' = u.table
            /\ Return(u.res)
    /\ UNCHANGED <<term, app_state, time_update, event, timer_quit, event_thread_quit,
                   timer, watcher, hist>>
    /\ UNCHANGED non_session_vars

(***************************************************************************)
(* helper.rs run_timer_thread (211-244)                                    *)
(***************************************************************************)
\* if quit_rx.try_recv().is_ok() { break; }  (219-221)
TimerTop ==
    /\ timer.pc = "top"
    /\ IF timer_quit > 0
       THEN /\ timer_quit' = timer_quit - 1
            /\ timer' = [timer EXCEPT !.pc = "done"]
       ELSE /\ timer_quit' = timer_quit
            /\ timer' = [timer EXCEPT !.pc = "send"]
    /\ UNCHANGED <<pc, result, term, app_state, pomo_task, pomodoro, now, time_update,
                   event, event_thread_quit, watcher, hist>>
    /\ UNCHANGED non_session_vars

\* mutant of TimerSend: the zero check after the send is missing
TimerSend_NoZeroCheck ==
    /\ timer.pc = "send"
    /\ IF ~MainAlive
       THEN /\ timer' = [timer EXCEPT !.pc = "done"]
            /\ UNCHANGED <<time_update, hist>>
       ELSE /\ time_update' = Append(time_update, timer.current_duration)
            /\ hist' = [hist EXCEPT
                          !.reports = Append(@, timer.current_duration),
                          !.quit_before_zero =
                              @ \/ (timer.current_duration = 0 /\ hist.quit_sent)]
            /\ timer' = [timer EXCEPT !.pc = "sleep", !.slice = 0]
    /\ UNCHANGED <<pc, result, term, app_state, pomo_task, pomodoro, now, event,
                   timer_quit, event_thread_quit, watcher>>
    /\ UNCHANGED non_session_vars

\* time_update_tx.send(current_duration), then the zero check  (224-231)
TimerSend ==
    /\ timer.pc = "send"
    /\ IF ~MainAlive
       THEN /\ timer' = [timer EXCEPT !.pc = "done"]
            /\ UNCHANGED <<time_update, hist>>
       ELSE /\ time_update' = Append(time_update, timer.current_duration)
            /\ hist' = [hist EXCEPT
                          !.reports = Append(@, timer.current_duration),
                          !.quit_before_zero =
                              @ \/ (timer.current_duration = 0 /\ hist.quit_sent)]
            /\ timer' = IF timer.current_duration = 0
                        THEN [timer EXCEPT !.pc = "done"]
                        ELSE [timer EXCEPT !.pc = "sleep", !.slice = 0]
    /\ UNCHANGED <<pc, result, term, app_state, pomo_task, pomodoro, now, event,
                   timer_quit, event_thread_quit, watcher>>
    /\ UNCHANGED non_session_vars

\* mutant of TimerSlice: the second is slept without looking at the stop signal
TimerSlice_WholeSecond ==
    /\ timer.pc = "sleep"
    /\ timer_quit' = timer_quit
    /\ timer' = IF timer.slice + 1 < SleepSlices
                THEN [timer EXCEPT !.slice = @ + 1]
                ELSE [pc |-> "top",
                      current_duration |-> NextDuration(timer.current_duration),
                      slice |-> 0]
    /\ UNCHANGED <<pc, result, term, app_state, pomo_task, pomodoro, now, time_update,
                   event, event_thread_quit, watcher, hist>>
    /\ UNCHANGED non_session_vars

\* mutant of TimerSlice: the stop signal seen in a slice only ends the sleep
\* (break out of the for loop instead of return)
TimerSlice_BreakInner ==
    /\ timer.pc = "sleep"
    /\ IF timer_quit > 0
       THEN /\ timer_quit' = timer_quit - 1
            /\ timer' = [pc |-> "top",
                         current_duration |-> NextDuration(timer.current_duration),
                         slice |-> 0]
       ELSE /\ timer_quit' = timer_quit
            /\ timer' = IF timer.slice + 1 < SleepSlices
                        THEN [timer EXCEPT !.slice = @ + 1]
                        ELSE [pc |-> "top",
                              current_duration |-> NextDuration(timer.current_duration),
                              slice |-> 0]
    /\ UNCHANGED <<pc, result, term, app_state, pomo_task, pomodoro, now, time_update,
                   event, event_thread_quit, watcher, hist>>
    /\ UNCHANGED non_session_vars

\* one pass of `for _ in 0..10`: stop check, 100 ms sleep (235-240); after the
\* last pass current_duration.saturating_sub(1 s)  (242)
TimerSlice ==
    /\ timer.pc = "sleep"
    /\ IF timer_quit > 0
       THEN /\ timer_quit' = timer_quit - 1
            /\ timer' = [timer EXCEPT !.pc = "done"]
       ELSE /\ timer_quit' = timer_quit
            /\ timer' = IF timer.slice + 1 < SleepSlices
                        THEN [timer EXCEPT !.slice = @ + 1]
                        ELSE [pc |-> "top",
                              current_duration |-> NextDuration(timer.current_duration),
                              slice |-> 0]
    /\ UNCHANGED <<pc, result, term, app_state, pomo_task, pomodoro, now, time_update,
                   event, event_thread_quit, watcher, hist>>
    /\ UNCHANGED non_session_vars

(***************************************************************************)
(* helper.rs run_event_thread (246-289)                                    *)
(***************************************************************************)
\* what event::poll / event::read can deliver in one pass: no event within
\* the timeout, a failed poll, a quit key, a failed read, another event, a resize
TerminalInputs ==
    {[kind |-> k] : k \in {"none", "poll_error", "quit_key", "read_error", "other"}}
    \cup {[kind |-> "resize", size |-> sz] : sz \in TermSizes}

\* if quit_rx.try_recv().is_ok() { break; }  (249-251)
WatcherTop ==
    /\ watcher.pc = "top"
    /\ IF event_thread_quit > 0
       THEN /\ event_thread_quit' = event_thread_quit - 1
            /\ watcher' = [pc |-> "done", poll_failed |-> FALSE]
       ELSE /\ event_thread_quit' = event_thread_quit
            /\ watcher' = [pc |-> "poll", poll_failed |-> FALSE]
    /\ UNCHANGED <<pc, result, term, app_state, pomo_task, pomodoro, now, time_update,
                   event, timer_quit, timer, hist>>
    /\ UNCHANGED non_session_vars

\* mutant of WatcherPoll: the loop goes on after a Quit was sent
WatcherPoll_NoBreak ==
    /\ watcher.pc = "poll"
    /\ \E in \in TerminalInputs :
         CASE in.kind \in {"quit_key", "read_error"} ->
                /\ event' = IF MainAlive THEN Append(event, QuitEvent) ELSE event
                /\ hist' = IF MainAlive THEN [hist EXCEPT !.quit_sent = TRUE] ELSE hist
                /\ watcher' = [watcher EXCEPT !.pc = IF MainAlive THEN "top" ELSE "done"]
           [] in.kind = "resize" ->
                /\ hist.reported < MaxResize
                /\ IF MainAlive
                   THEN /\ event' = Append(event, ResizeEvent(in.size))
                        /\ hist' = [hist EXCEPT !.reported = @ + 1]
                        /\ watcher' = [watcher EXCEPT !.pc = "top"]
                   ELSE /\ watcher' = [watcher EXCEPT !.pc = "done"]
                        /\ UNCHANGED <<event, hist>>
           [] in.kind = "poll_error" ->
                /\ watcher' = [pc |-> "top", poll_failed |-> TRUE]
                /\ UNCHANGED <<event, hist>>
           [] OTHER ->
                /\ watcher' = [watcher EXCEPT !.pc = "top"]
                /\ UNCHANGED <<event, hist>>
    /\ UNCHANGED <<pc, result, term, app_state, pomo_task, pomodoro, now, time_update,
                   timer_quit, event_thread_quit, timer>>
    /\ UNCHANGED non_session_vars

\* event::poll(200 ms).unwrap_or(false), event::read() and the send  (254-286)
WatcherPoll ==
    /\ watcher.pc = "poll"
    /\ \E in \in TerminalInputs :
         CASE in.kind \in {"quit_key", "read_error"} ->
                /\ event' = IF MainAlive THEN Append(event, QuitEvent) ELSE event
                /\ hist' = IF MainAlive THEN [hist EXCEPT !.quit_sent = TRUE] ELSE hist
                /\ watcher' = [watcher EXCEPT !.pc = "done"]
           [] in.kind = "resize" ->
                /\ hist.reported < MaxResize
                /\ IF MainAlive
                   THEN /\ event' = Append(event, ResizeEvent(in.size))
                        /\ hist' = [hist EXCEPT !.reported = @ + 1]
                        /\ watcher' = [watcher EXCEPT !.pc = "top"]
                   ELSE /\ watcher' = [watcher EXCEPT !.pc = "done"]
                        /\ UNCHANGED <<event, hist>>
           [] in.kind = "poll_error" ->
                /\ watcher' = [pc |-> "top", poll_failed |-> TRUE]
                /\ UNCHANGED <<event, hist>>
           [] OTHER ->
                /\ watcher' = [watcher EXCEPT !.pc = "top"]
                /\ UNCHANGED <<event, hist>>
    /\ UNCHANGED <<pc, result, term, app_state, pomo_task, pomodoro, now, time_update,
                   timer_quit, event_thread_quit, timer>>
    /\ UNCHANGED non_session_vars

Coordinator ==
    \/ Validate
    \/ AddPomodoro
    \/ ClearScreen
    \/ EnableRawMode
    \/ EnterAlternateScreen
    \/ TerminalSize
    \/ SpawnTimer
    \/ SpawnEvent
    \/ FirstDraw
    \/ CheckEvents
    \/ CheckTime
    \/ SendTimerQuit
    \/ SendEventQuit
    \/ JoinTimer
    \/ JoinEvent
    \/ LeaveAlternateScreen
    \/ DisableRawMode
    \/ Finalize

Clock == TimerTop \/ TimerSend \/ TimerSlice

Watcher == WatcherTop \/ WatcherPoll

Next ==
    \/ Validate
    \/ AddPomodoro
    \/ ClearScreen
    \/ EnableRawMode
    \/ EnterAlternateScreen
    \/ TerminalSize
    \/ SpawnTimer
    \/ SpawnEvent
    \/ FirstDraw
    \/ CheckEvents
    \/ CheckTime
    \/ SendTimerQuit
    \/ SendEventQuit
    \/ JoinTimer
    \/ JoinEvent
    \/ LeaveAlternateScreen
    \/ DisableRawMode
    \/ Finalize
    \/ TimerTop
    \/ TimerSend
    \/ TimerSlice
    \/ WatcherTop
    \/ WatcherPoll

Spec == Init /\ [][Next]_vars

\* every runnable thread is scheduled
FairSpec == Spec /\ WF_vars(Coordinator) /\ WF_vars(Clock) /\ WF_vars(Watcher)

(***************************************************************************)
(* Vocabulary of the claims about a session.                               *)
(***************************************************************************)
\* add_pomodoro has inserted this run's row
Created == pomo_task.id \in DOMAIN pomodoro

\* this run's row of the pomodoro table
Session == pomodoro[pomo_task.id]

StoredStatus == PomoStatus_from_usize(Session.status)

WholeSeconds == pomo_task.duration \in {1000 * k : k \in 1..MaxSeconds}

InLoop == pc \in {"events", "time"}

AfterLoop == pc \in {"send_timer_quit", "send_event_quit", "join_timer", "join_event",
                     "leave_alt", "disable_raw", "finalize", "returned"}

WorkersStopped == timer.pc = "done" /\ watcher.pc = "done"

TerminalRestored == ~term.raw /\ ~term.alt /\ ~term.cursor_hidden

\* handle_pomodoro returned an error of the named calls
Failed(calls) == pc = "returned" /\ result \in calls

SetupFailures == {"Err_clear_screen", "Err_enable_raw", "Err_enter_alt", "Err_size"}
RestoreFailures == {"Err_leave_alt", "Err_disable_raw"}

FinalizedFinished ==
    /\ pc = "returned"
    /\ Created
    /\ StoredStatus = "Finished"
    /\ Session.end_time # NULL
    /\ Session.end_time[1] >= Session.start_time

C2_QuitStep ==
    (pc = "events" /\ pc' # pc /\ event # <<>> /\ Head(event).type = "Quit")
        => (pc' = "send_timer_quit" /\ app_state'.quited /\ event' = Tail(event))

C2_QuitState ==
    app_state.quited =>
        /\ AfterLoop
        /\ Created
        /\ StoredStatus \in {"Running", "Paused"}
        /\ (result = "Ok" => StoredStatus = "Paused" /\ Session.end_time # NULL)

C3_QuitWins ==
    (hist.both_pending /\ AfterLoop /\ result # "Err_draw") =>
        /\ app_state.quited
        /\ (Created /\ Session.end_time # NULL => StoredStatus = "Paused")

(***************************************************************************)
(* C4: the row is finalized, and the terminal restored, only when both     *)
(* workers have terminated: update_pomodoro runs after both joins.         *)
(***************************************************************************)
C4_FinalizeAfterJoins ==
    /\ (pc \in {"leave_alt", "disable_raw", "finalize"}) => WorkersStopped
    /\ (Created /\ Session.end_time # NULL) => WorkersStopped
    /\ (pc = "returned" /\ result \in {"Ok", "Err_update"} \cup RestoreFailures)
           => WorkersStopped

\* finalized after a Quit: the Clock was stopped by the stop signal
C4_Witness ==
    /\ pc = "returned" /\ result = "Ok"
    /\ StoredStatus = "Paused"
    /\ timer.current_duration > 0
    /\ WorkersStopped

(***************************************************************************)
(* C5 (as stated): when entering the alternate screen, the size query or   *)
(* draw_ui fails after raw mode was enabled, control_terminal returns the  *)
(* error with the terminal restored: alternate screen left, cursor shown,  *)
(* raw mode disabled.                                                      *)
(***************************************************************************)
C5_RestoredOnError ==
    Failed({"Err_enter_alt", "Err_size", "Err_draw"}) => TerminalRestored

(***************************************************************************)
(* C6 (as stated): when the run of a created session ends through a Quit   *)
(* or through an error (a draw failure during the countdown, a failure     *)
(* while restoring the terminal), control_terminal returns with the row    *)
(* stored as Paused, not left Running.                                     *)
(***************************************************************************)
C6_PausedOnQuitOrError ==
    (/\ pc = "returned"
     /\ \/ app_state.quited /\ result # "Err_update"
        \/ result = "Err_draw" /\ term.redraws > 0
        \/ result \in RestoreFailures)
        => (Created /\ StoredStatus = "Paused")

(***************************************************************************)
(* C7: a row of the pomodoro table is inserted with status Running, its    *)
(* status changes only from Running, and only to Paused or Finished (so at *)
(* most once); this run's row is Running until control_terminal finalizes  *)
(* it, and no step changes the status of a finalized row.                  *)
(***************************************************************************)
C7_StatusStep ==
    \A i \in DOMAIN pomodoro' :
        IF i \in DOMAIN pomodoro
        THEN pomodoro'[i].status # pomodoro[i].status =>
                /\ PomoStatus_from_usize(pomodoro[i].status) = "Running"
                /\ PomoStatus_from_usize(pomodoro'[i].status) \in {"Paused", "Finished"}
        ELSE PomoStatus_from_usize(pomodoro'[i].status) = "Running"

C7_RunningUntilFinalized ==
    (Created /\ pc # "returned") => (StoredStatus = "Running" /\ Session.end_time = NULL)

C7_StatusChangesOnce == [][C7_StatusStep]_vars /\ []C7_RunningUntilFinalized

\* this run's row is finalized beside a row an earlier run finalized as Paused
C7_Witness ==
    /\ Created
    /\ Len(pomodoro) = 2
    /\ StoredStatus = "Finished"
    /\ PomoStatus_from_usize(pomodoro[1].status) = "Paused"

(***************************************************************************)
(* C8: the Watcher keeps polling after it has reported a Resize; the       *)
(* Coordinator handles each Resize it takes (when the redraw succeeds)     *)
(* with exactly one redraw that shows that event's width and height,       *)
(* leaves the remaining time, the quit flag and the pomodoro table         *)
(* unchanged and stays in the control loop; no reported Resize is lost or  *)
(* handled twice.                                                          *)
(***************************************************************************)
ResizesIn(ch) == Cardinality({i \in DOMAIN ch : ch[i].type = "Resize"})

C8_WatcherStep ==
    (Len(event') = Len(event) + 1 /\ event'[Len(event')].type = "Resize")
        => (watcher'.pc = "top" /\ hist'.reported = hist.reported + 1)

C8_ResizeStep ==
    (/\ pc = "events" /\ pc' # pc
     /\ event # <<>> /\ Head(event).type = "Resize"
     /\ result' # "Err_draw")
        => /\ pc' = "time"
           /\ event' = Tail(event)
           /\ term'.redraws = term.redraws + 1
           /\ term'.frame.width = Head(event).width
           /\ term'.frame.height = Head(event).height
           /\ term'.frame.secs = app_state.current_time
           /\ app_state'.term_width = Head(event).width
           /\ app_state'.term_height = Head(event).height
           /\ app_state'.current_time = app_state.current_time
           /\ app_state'.quited = app_state.quited
           /\ pomodoro' = pomodoro
           /\ hist'.handled = hist.handled + 1

C8_NoneLost ==
    (result # "Err_draw") => hist.reported = hist.handled + ResizesIn(event)

C8_ResizeHandling == [][C8_WatcherStep]_vars /\ [][C8_ResizeStep]_vars /\ []C8_NoneLost

\* one Resize has been redrawn, the next one, of other dimensions, is next in
\* the channel, and the session is still Running in the loop
C8_Witness ==
    /\ pc = "events"
    /\ hist.handled = 1 /\ hist.reported = 2
    /\ event # <<>> /\ Head(event).type = "Resize"
    /\ Head(event).width # term.frame.width
    /\ Head(event).height # term.frame.height
    /\ term.frame.width = app_state.term_width
    /\ StoredStatus = "Running"
    /\ ~app_state.quited

\* ---------------------------------------------------------------------
\* The task commands: tasklog ls, tasklog done
\* ---------------------------------------------------------------------

\* rows of the tasks table
MaxTasks == 2

\* if self.limit > 100, if self.days > 365
LimitCap == 100
DaysCap == 365

\* LSArgs: the command line of tasklog ls
LimitInputs == {1, LimitCap, LimitCap + 1}
DaysInputs == {0, 1, DaysCap, DaysCap + 1}
CategoryInputs == {None, Some("home")}
PriorityInputs == {None, Some("Low")}
StatusInputs == {None, Some("Open"), Some("Done"), Some("All")}
LSTypeInputs == {"Task", "Pomo"}

LSArgs ==
    [limit : LimitInputs, days : DaysInputs, category : CategoryInputs,
     priority : PriorityInputs, status : StatusInputs, ls_type : LSTypeInputs]

\* mutant of LSArgs_validate: the days check is missing
LSArgs_validate_LimitOnly(args) ==
    IF args.limit > LimitCap THEN "Limit cannot be greater than 100" ELSE "Ok"

LSArgs_validate(args) ==
    IF args.limit > LimitCap THEN "Limit cannot be greater than 100"
    ELSE IF args.days > DaysCap THEN "Days cannot be greater than 365"
    ELSE "Ok"

TaskStatus_to_usize(s) ==
    CASE s = "Done" -> 1
      [] s = "Open" -> 0
      [] s = "All" -> 2

TaskStatus_from_usize(n) ==
    CASE n = 0 -> "Open"
      [] n = 1 -> "Done"
      [] OTHER -> "All"

\* p as usize: the discriminant of the enum
Priority_as_usize(p) ==
    CASE p = "Low" -> 1
      [] p = "Medium" -> 2
      [] p = "High" -> 3
      [] p = "Urgent" -> 4

Priority_from_usize(n) ==
    CASE n = 1 -> "Low"
      [] n = 2 -> "Medium"
      [] n = 3 -> "High"
      [] n = 4 -> "Urgent"
      [] OTHER -> "Medium"

\* what distinguishes the stored tasks: due day, priority, category
TaskInputs ==
    {[due_date |-> 29, priority |-> 1, category |-> Some("home")],
     [due_date |-> 30, priority |-> 1, category |-> NULL],
     [due_date |-> 29, priority |-> 4, category |-> NULL],
     [due_date |-> 30, priority |-> 4, category |-> Some("home")]}

\* created_at DEFAULT CURRENT_TIMESTAMP: never decreasing in the id, equal for
\* rows inserted within the same second
CreatedAts(n) ==
    {c \in [1..n -> 1..n] :
        /\ n > 0 => c[1] = 1
        /\ \A i \in 1..(n - 1) : c[i + 1] - c[i] \in {0, 1}}

TaskRow(i, in, status, created_at) ==
    [id |-> i, status |-> status, title |-> "Task", due_date |-> in.due_date,
     priority |-> in.priority, category |-> in.category, created_at |-> created_at]

TaskTables ==
    UNION {{[i \in 1..n |-> TaskRow(i, f[i][1], f[i][2], c[i])] :
               f \in [1..n -> TaskInputs \X {0, 1}], c \in CreatedAts(n)} :
           n \in 0..MaxTasks}

\* save_task stores the status of a new Task, TaskStatus::Open: a task is Done
\* only once tasklog done has marked it
OpenTables == {t \in TaskTables : \A i \in DOMAIN t : t[i].status = 0}

\* the day the command runs: the 29th of a month of 30 days
TodayInputs == {[day |-> 29, days_in_month |-> 30]}

\* DateTime::with_day: None when the month has no such day
with_day(date, d) ==
    IF d \in 1..date.days_in_month THEN Some(d) ELSE None

where_priority(priority) ==
    IF priority = None THEN [sql |-> "", params |-> <<>>]
    ELSE [sql |-> "AND priority = :priority", params |-> <<Priority_as_usize(priority[1])>>]

where_category(category) ==
    IF category = None THEN [sql |-> "", params |-> <<>>]
    ELSE [sql |-> "AND category = :category", params |-> <<category[1]>>]

\* mutant of where_status: the All sentinel is bound like Open and Done
where_status_AllBound(status) ==
    IF status = None THEN [sql |-> "AND status = 0", params |-> <<>>]
    ELSE [sql |-> "AND status = :status", params |-> <<TaskStatus_to_usize(status[1])>>]

where_status(status) ==
    IF status = None THEN [sql |-> "AND status = 0", params |-> <<>>]
    ELSE IF status[1] \in {"Done", "Open"}
         THEN [sql |-> "AND status = :status", params |-> <<TaskStatus_to_usize(status[1])>>]
         ELSE [sql |-> "", params |-> <<>>]

\* GET_TASKS with its placeholders replaced and its parameters bound
TaskQuery(args, due_date) ==
    [sql |-> "GET_TASKS", due_date |-> due_date, limit |-> args.limit,
     where_category |-> where_category(args.category),
     where_priority |-> where_priority(args.priority),
     where_status |-> where_status(args.status)]

\* the WHERE clause of the query on one row; a NULL category equals nothing
Selected(q, row) ==
    /\ row.due_date <= q.due_date
    /\ q.where_category.sql # "" =>
           (row.category # NULL /\ row.category[1] = q.where_category.params[1])
    /\ q.where_priority.sql # "" => row.priority = q.where_priority.params[1]
    /\ q.where_status.sql = "AND status = 0" => row.status = 0
    /\ q.where_status.sql = "AND status = :status" => row.status = q.where_status.params[1]

Min(a, b) == IF a < b THEN a ELSE b

\* ORDER BY created_at DESC limit :limit: the order of rows created in the
\* same second is not fixed by the query
Ordered(q, table) ==
    LET matching == {i \in DOMAIN table : Selected(q, table[i])}
        k == Min(q.limit, Cardinality(matching))
    IN  {f \in [1..k -> matching] :
            /\ \A i, j \in 1..k : i < j =>
                   (f[i] # f[j] /\ table[f[i]].created_at >= table[f[j]].created_at)
            /\ \A x \in matching \ {f[i] : i \in 1..k} :
                   \A i \in 1..k : table[x].created_at <= table[f[i]].created_at}

parse_task(row) ==
    [id |-> row.id, status |-> TaskStatus_from_usize(row.status), title |-> row.title,
     due_date |-> row.due_date, priority |-> Priority_from_usize(row.priority),
     category |-> row.category]

\* the results get_tasks can give: Err of the store, the panic of unwrap on a
\* day the month does not have, or the rows of the executed query
get_tasks(args, store_ok) ==
    IF ~store_ok THEN {[res |-> "Err", query |-> NoQuery, rows |-> <<>>]}
    ELSE LET due_date == with_day(today, today.day + args.days)
         IN  IF due_date = None
             THEN {[res |-> "panic", query |-> NoQuery, rows |-> <<>>]}
             ELSE LET q == TaskQuery(args, due_date[1])
                  IN  {[res |-> "Ok", query |-> q,
                        rows |-> [j \in DOMAIN f |-> parse_task(tasks[f[j]])]] :
                           f \in Ordered(q, tasks)}

\* GET_POMODORO_LIST: ORDER BY start_time DESC limit :limit; parse_pomo_task
\* unwraps parse_date of the stored start_time, which is Err for a timestamp
get_pomodoro(args, store_ok) ==
    LET q == [sql |-> "GET_POMODORO_LIST", limit |-> args.limit]
    IN  IF ~store_ok THEN [res |-> "Err", query |-> NoQuery, rows |-> <<>>]
        ELSE IF Min(args.limit, Len(pomodoro)) > 0
             THEN [res |-> "panic", query |-> q, rows |-> <<>>]
             ELSE [res |-> "Ok", query |-> q, rows |-> <<>>]

\* one run of tasklog has ended
CommandDone(name, args, outcome, error, query, rows) ==
    cmd' = [name |-> name, args |-> args, outcome |-> outcome, error |-> error,
            query |-> query, rows |-> rows]

\* the rest of handle_ls once the repository has answered: unwrap, print
Listed(args, r, print_ok) ==
    IF r.res = "Err" THEN CommandDone("ls", args, "Panic", "unwrap", r.query, <<>>)
    ELSE IF r.res = "panic" THEN CommandDone("ls", args, "Panic", "repository", r.query, <<>>)
    ELSE IF print_ok THEN CommandDone("ls", args, "Ok", "", r.query, r.rows)
    ELSE CommandDone("ls", args, "Err", "print_tables", r.query, r.rows)

handle_ls(args, store_ok, print_ok) ==
    LET v == LSArgs_validate(args)
    IN  IF v # "Ok" THEN CommandDone("ls", args, "ValidationError", v, NoQuery, <<>>)
        ELSE IF args.ls_type = "Task"
             THEN \E r \in get_tasks(args, store_ok) : Listed(args, r, print_ok)
             ELSE Listed(args, get_pomodoro(args, store_ok), print_ok)

HandleLs ==
    /\ cmd = NoCommand
    /\ \E args \in LSArgs, store_ok \in BOOLEAN, print_ok \in BOOLEAN :
           handle_ls(args, store_ok, print_ok)
    /\ UNCHANGED <<tasks, today>>
    /\ UNCHANGED non_task_vars

DoneIds == 1..(MaxTasks + 1)

\* mutant of handle_done: the status of the task read is not looked at
handle_done_NoCheck(id, store_ok, update_ok) ==
    IF ~store_ok \/ id \notin DOMAIN tasks
    THEN /\ CommandDone("done", id, "Err", "get_task_by_id", NoQuery, <<>>)
         /\ UNCHANGED tasks
    ELSE IF ~update_ok
    THEN /\ CommandDone("done", id, "Err", "done_task", NoQuery, <<>>)
         /\ UNCHANGED tasks
    ELSE /\ tasks' = [tasks EXCEPT ![id].status = 1]
         /\ CommandDone("done", id, "Ok", "", [sql |-> "DONE_TASK", id |-> id],
                        <<parse_task(tasks[id])>>)

handle_done(id, store_ok, update_ok) ==
    IF ~store_ok \/ id \notin DOMAIN tasks
    THEN /\ CommandDone("done", id, "Err", "get_task_by_id", NoQuery, <<>>)
         /\ UNCHANGED tasks
    ELSE LET task == parse_task(tasks[id])
         IN  IF task.status = "Done"
             THEN /\ CommandDone("done", id, "Err", "Task is already done", NoQuery, <<>>)
                  /\ UNCHANGED tasks
             ELSE IF ~update_ok
             THEN /\ CommandDone("done", id, "Err", "done_task", NoQuery, <<>>)
                  /\ UNCHANGED tasks
             ELSE /\ tasks' = [tasks EXCEPT ![id].status = 1]
                  /\ CommandDone("done", id, "Ok", "", [sql |-> "DONE_TASK", id |-> id],
                                 <<task>>)

HandleDone ==
    /\ cmd = NoCommand
    /\ \E id \in DoneIds, store_ok \in BOOLEAN, update_ok \in BOOLEAN :
           handle_done(id, store_ok, update_ok)
    /\ UNCHANGED today
    /\ UNCHANGED non_task_vars

\* the Task of tasklog add: clap skips id and status, which take their defaults
NewTask(title, due_date, priority, category) ==
    [id |-> 0, status |-> "Open", title |-> title, due_date |-> due_date,
     priority |-> priority, category |-> category]

\* titles blank and not, due dates before and after today
AddTaskInputs ==
    {NewTask(title, due_date, "Low", Some("home")) :
        title \in {"", "New Task"}, due_date \in {today.day - 1, today.day + 1}}

\* Task::validate: a blank title or a due date before now is rejected
Task_validate(task) ==
    IF task.title = "" THEN "Title cannot be empty"
    ELSE IF task.due_date < today.day THEN "Due date cannot be before 2020-01-01"
    ELSE "Ok"

\* the columns of CREATE_TASKS_TABLE, the columns INSERT_TASK names, the
\* parameters of INSERT_TASK and the parameters save_task binds
TasksColumns ==
    {"id", "status", "title", "due_date", "priority", "category", "created_at",
     "updated_at"}
InsertTaskColumns == {"status", "title", "due_date", "pomo_type", "category"}
InsertTaskParams == {":status", ":title", ":due_date", ":pomo_type", ":category"}
SaveTaskParams == {":status", ":title", ":due_date", ":priority", ":category"}

\* save_task(&mut task): prepare fails on a column the table does not have,
\* execute on a parameter the statement does not have; its Ok arm returns
\* without assigning task.id
save_task(task, store_ok) ==
    IF ~store_ok
    THEN [res |-> "Err", error |-> "get_connection", query |-> NoQuery,
          task |-> task, table |-> tasks]
    ELSE IF ~(InsertTaskColumns \subseteq TasksColumns)
    THEN [res |-> "Err", error |-> "prepare", query |-> [sql |-> "INSERT_TASK"],
          task |-> task, table |-> tasks]
    ELSE IF ~(SaveTaskParams \subseteq InsertTaskParams)
    THEN [res |-> "Err", error |-> "execute", query |-> [sql |-> "INSERT_TASK"],
          task |-> task, table |-> tasks]
    ELSE [res |-> "Ok", error |-> "", query |-> [sql |-> "INSERT_TASK"], task |-> task,
          table |-> Append(tasks,
                       [id |-> Len(tasks) + 1, status |-> TaskStatus_to_usize(task.status),
                        title |-> task.title, due_date |-> task.due_date,
                        priority |-> Priority_as_usize(task.priority),
                        category |-> task.category, created_at |-> Len(tasks) + 1])]

\* mutant of handel_add_task: the task is saved before it is validated
handel_add_task_SaveFirst(task, store_ok) ==
    LET r == save_task(task, store_ok)
        v == Task_validate(task)
    IN  /\ tasks' = r.table
        /\ IF v # "Ok" THEN CommandDone("add", task, "ValidationError", v, r.query, <<>>)
           ELSE IF r.res = "Err" THEN CommandDone("add", task, "Err", r.error, r.query, <<>>)
           ELSE CommandDone("add", task, "Ok", "", r.query, <<r.task>>)

handel_add_task(task, store_ok) ==
    LET v == Task_validate(task)
    IN  IF v # "Ok"
        THEN /\ CommandDone("add", task, "ValidationError", v, NoQuery, <<>>)
             /\ UNCHANGED tasks
        ELSE LET r == save_task(task, store_ok)
             IN  /\ tasks' = r.table
                 /\ IF r.res = "Err"
                    THEN CommandDone("add", task, "Err", r.error, r.query, <<>>)
                    ELSE CommandDone("add", task, "Ok", "", r.query, <<r.task>>)

HandleAdd ==
    /\ cmd = NoCommand
    /\ \E task \in AddTaskInputs, store_ok \in BOOLEAN : handel_add_task(task, store_ok)
    /\ UNCHANGED today
    /\ UNCHANGED non_task_vars

\* AnalyzeArgs: how many days from now the --days date lies
AnalyzeInputs == {[days |-> d] : d \in {1, DaysCap, DaysCap + 1}}

\* AnalyzeArgs::validate: a date more than a year from now is rejected
AnalyzeArgs_validate(args) ==
    IF args.days > DaysCap THEN "Days cannot be greater than 365" ELSE "Ok"

\* repository::get_analysis: a read of the store that answers rows or Err
get_analysis(args, store_ok) ==
    IF store_ok THEN [res |-> "Ok", query |-> [sql |-> "GET_ANALYSIS"], rows |-> <<>>]
    ELSE [res |-> "Err", query |-> NoQuery, rows |-> <<>>]

handle_analyze(args, store_ok, print_ok) ==
    LET v == AnalyzeArgs_validate(args)
    IN  IF v # "Ok" THEN CommandDone("analyze", args, "ValidationError", v, NoQuery, <<>>)
        ELSE LET r == get_analysis(args, store_ok)
             IN  IF r.res = "Err"
                 THEN CommandDone("analyze", args, "Panic", "unwrap", r.query, <<>>)
                 ELSE IF print_ok THEN CommandDone("analyze", args, "Ok", "", r.query, r.rows)
                 ELSE CommandDone("analyze", args, "Err", "print_tables", r.query, r.rows)

HandleAnalyze ==
    /\ cmd = NoCommand
    /\ \E args \in AnalyzeInputs, store_ok \in BOOLEAN, print_ok \in BOOLEAN :
           handle_analyze(args, store_ok, print_ok)
    /\ UNCHANGED <<tasks, today>>
    /\ UNCHANGED non_task_vars

\* the process ends; the next command line starts a new one
ProcessExit ==
    /\ cmd # NoCommand
    /\ cmd' = NoCommand
    /\ UNCHANGED <<tasks, today>>
    /\ UNCHANGED non_task_vars

InitLs ==
    /\ ProcessInit
    /\ pomo_task = NewPomoTask("", 0)
    /\ pomodoro \in PriorTables
    /\ now = 1
    /\ tasks \in OpenTables
    /\ today \in TodayInputs
    /\ cmd = NoCommand
    /\ call = NoCall

NextLs ==
    \/ HandleLs
    \/ HandleDone
    \/ HandleAdd
    \/ HandleAnalyze
    \/ ProcessExit

SpecLs == InitLs /\ [][NextLs]_vars

\* ---------------------------------------------------------------------
\* Claims about the task listing
\* ---------------------------------------------------------------------

Ran(name) == cmd.name = name

\* the listing built a query, whether or not its rows could be printed
QueryExecuted == Ran("ls") /\ cmd.query # NoQuery

\* C9: a listing with limit > 100 or days > 365 ends in a validation error with
\* no query built and no rows read; a query that is executed carries the limit
\* of the command line unchanged and at most 100, and a task query is bounded
\* by the day of today plus the days of the command line, which are at most 365.
C9_ValidatedBeforeQuery ==
    Ran("ls") =>
        /\ (cmd.args.limit > LimitCap \/ cmd.args.days > DaysCap) =>
               (cmd.outcome = "ValidationError" /\ cmd.query = NoQuery /\ cmd.rows = <<>>)
        /\ QueryExecuted =>
               /\ cmd.query.limit = cmd.args.limit
               /\ cmd.query.limit <= LimitCap
               /\ cmd.args.days <= DaysCap
               /\ cmd.query.sql = "GET_TASKS" =>
                      cmd.query.due_date = today.day + cmd.args.days

\* a listing of more days than allowed, with an allowed limit, was rejected
C9_Witness ==
    /\ Ran("ls")
    /\ cmd.args.days > DaysCap
    /\ cmd.args.limit <= LimitCap
    /\ cmd.outcome = "ValidationError"

\* the stored tasks the filters other than the status let through
OtherFilters(args) ==
    {i \in DOMAIN tasks :
        /\ tasks[i].due_date <= today.day + args.days
        /\ args.category # None => tasks[i].category = args.category
        /\ args.priority # None =>
               Priority_from_usize(tasks[i].priority) = args.priority[1]}

\* the stored statuses a status argument asks for
StatusesAsked(status) ==
    IF status = None THEN {"Open"}
    ELSE IF status = Some("All") THEN {"Open", "Done"}
    ELSE {status[1]}

Listable(args) ==
    {i \in OtherFilters(args) :
        TaskStatus_from_usize(tasks[i].status) \in StatusesAsked(args.status)}

\* C10: the rows of an executed task query are stored tasks that pass the other
\* filters and whose status is Open when no status was given, Open or Done when
\* All was given, and the given status otherwise; and as many of those tasks
\* are returned as the limit allows, so All leaves neither status out.
C10_StatusFilter ==
    (QueryExecuted /\ cmd.query.sql = "GET_TASKS") =>
        /\ \A k \in DOMAIN cmd.rows :
               /\ cmd.rows[k].id \in Listable(cmd.args)
               /\ cmd.rows[k].status = TaskStatus_from_usize(tasks[cmd.rows[k].id].status)
               /\ cmd.rows[k].status \in StatusesAsked(cmd.args.status)
        /\ Len(cmd.rows) = Min(cmd.args.limit, Cardinality(Listable(cmd.args)))

\* a listing with status All returned an Open and a Done task
C10_Witness ==
    /\ QueryExecuted
    /\ cmd.query.sql = "GET_TASKS"
    /\ cmd.args.status = Some("All")
    /\ \E j, k \in DOMAIN cmd.rows :
           cmd.rows[j].status = "Open" /\ cmd.rows[k].status = "Done"

\* a task listing that passed validation and whose store answered
TaskListingAnswered ==
    /\ Ran("ls")
    /\ cmd.args.ls_type = "Task"
    /\ LSArgs_validate(cmd.args) = "Ok"
    /\ cmd.error # "unwrap"

\* C11: every task listing with days N in 0..365 whose store answers executes a
\* query bounded by today plus N days, whatever the other filters, and returns
\* the tasks due on or before that day (as many as the limit allows).
C11_DueDateBound ==
    TaskListingAnswered =>
        /\ QueryExecuted
        /\ cmd.query.due_date = today.day + cmd.args.days
        /\ \A k \in DOMAIN cmd.rows : cmd.rows[k].due_date <= today.day + cmd.args.days
        /\ Len(cmd.rows) = Min(cmd.args.limit, Cardinality(Listable(cmd.args)))

\* C12: the rows of a task listing are in descending order of creation time,
\* and rows created at the same time are in ascending order of id.
C12_TiesByAscendingId ==
    (QueryExecuted /\ cmd.query.sql = "GET_TASKS") =>
        \A j, k \in DOMAIN cmd.rows : j < k =>
            \/ tasks[cmd.rows[j].id].created_at > tasks[cmd.rows[k].id].created_at
            \/ /\ tasks[cmd.rows[j].id].created_at = tasks[cmd.rows[k].id].created_at
               /\ cmd.rows[j].id < cmd.rows[k].id

\* tasklog done read the task it was given: no store failure, the id exists
DoneRead(id) ==
    /\ cmd = NoCommand
    /\ cmd'.name = "done"
    /\ cmd'.args = id
    /\ cmd'.error # "get_task_by_id"

\* marking task id, the store working: Ok and the one UPDATE if the task read
\* is Open, the already-done error and no statement if the task read is Done
C13_DoneStep ==
    \A id \in DOMAIN tasks :
        DoneRead(id) =>
            IF tasks[id].status = 1
            THEN /\ cmd'.outcome = "Err"
                 /\ cmd'.error = "Task is already done"
                 /\ cmd'.query = NoQuery
                 /\ tasks' = tasks
            ELSE IF cmd'.error = "done_task"
            THEN cmd'.outcome = "Err" /\ tasks' = tasks
            ELSE /\ cmd'.outcome = "Ok"
                 /\ cmd'.query = [sql |-> "DONE_TASK", id |-> id]
                 /\ tasks' = [tasks EXCEPT ![id].status = 1]

\* a task that is Done stays Done
C13_DoneStays ==
    /\ DOMAIN tasks' = DOMAIN tasks
    /\ \A i \in DOMAIN tasks : tasks[i].status = 1 => tasks'[i].status = 1

\* C13: marking an Open task done succeeds and stores Done; the status then
\* stays Done, so that marking the same task again fails with the already-done
\* error, decided on the task read, without executing an update.
C13_DoneTwice == [][C13_DoneStep /\ C13_DoneStays]_vars

\* a task marked done earlier was marked again, and refused
C13_Witness ==
    /\ Ran("done")
    /\ cmd.error = "Task is already done"
    /\ cmd.args \in DOMAIN tasks
    /\ tasks[cmd.args].status = 1

\* the repository answered the listing with Err, which handle_ls unwraps
StoreFailed == Ran("ls") /\ cmd.error = "unwrap"

\* C19: a listing whose store fails ends with an error result and no rows, not
\* with a crash and not with a successful listing.
C19_StoreErrorReturned ==
    StoreFailed => (cmd.outcome = "Err" /\ cmd.rows = <<>>)

\* ---------------------------------------------------------------------
\* The session store called directly, as the tests of repository.rs call it
\* ---------------------------------------------------------------------

\* repository calls in one behaviour; the clock reads 1 at the first one
MaxCalls == 3

\* the records handed to add_pomodoro: 25 minutes of work in a category, one
\* second of rest, and the Paused record of test_add_pomodoro
AddInputs ==
    {[NewPomoTask("focus", 1500000) EXCEPT !.category = Some("focus")],
     [NewPomoTask("break", 1000) EXCEPT !.pomo_type = "Rest"],
     [NewPomoTask("New Pomo", 1500000) EXCEPT !.status = "Paused"]}

\* the records handed to update_pomodoro: an id the table has or the next one,
\* any status, the end time read from the clock, other fields of its own
UpdateInputs ==
    {[NewPomoTask("not updated", 1000) EXCEPT !.id = i, !.status = st, !.end_time = now] :
        i \in 1..(Len(pomodoro) + 1), st \in {"Running", "Paused", "Finished"}}

\* mutant of add_pomodoro: the row is inserted, the record is handed back as it came
add_pomodoro_RecordKept(p, start_time, store_ok) ==
    IF store_ok
    THEN [table |-> Append(pomodoro, InsertedRow(p, start_time)), p |-> p, res |-> "Ok"]
    ELSE [table |-> pomodoro, p |-> p, res |-> "Err"]

\* add_pomodoro(&mut pomo_task): INSERT ... RETURNING id, then id and start_time
\* of the record are set
add_pomodoro(p, start_time, store_ok) ==
    IF store_ok
    THEN [table |-> Append(pomodoro, InsertedRow(p, start_time)),
          p |-> [p EXCEPT !.id = Len(pomodoro) + 1, !.start_time = start_time],
          res |-> "Ok"]
    ELSE [table |-> pomodoro, p |-> p, res |-> "Err"]

\* what a repository call leaves alone
non_store_vars ==
    <<pc, result, term, app_state, pomo_task, time_update, event, timer_quit,
      event_thread_quit, timer, watcher, hist, task_vars>>

\* the call is over; time has passed when the next one starts
Called(fn, arg, res, out) ==
    /\ call' = [fn |-> fn, arg |-> arg, res |-> res, out |-> out]
    /\ now' = now + 1
    /\ UNCHANGED non_store_vars

AddPomodoroCall ==
    /\ now <= MaxCalls
    /\ \E p \in AddInputs, store_ok \in BOOLEAN :
           LET r == add_pomodoro(p, now, store_ok)
           IN  /\ pomodoro' = r.table
               /\ Called("add_pomodoro", p, r.res, r.p)

UpdatePomodoroCall ==
    /\ now <= MaxCalls
    /\ \E p \in UpdateInputs, store_ok \in BOOLEAN :
           LET u == update_pomodoro(pomodoro, p, store_ok)
           IN  /\ pomodoro' = u.table
               /\ Called("update_pomodoro", p, u.res, <<>>)

GetPomodoroCall ==
    /\ now <= MaxCalls
    /\ \E limit \in LimitInputs, store_ok \in BOOLEAN :
           LET r == get_pomodoro([limit |-> limit], store_ok)
           IN  /\ pomodoro' = pomodoro
               /\ Called("get_pomodoro", [limit |-> limit], r.res, r.rows)

InitRepo ==
    /\ ProcessInit
    /\ pomo_task = NewPomoTask("", 0)
    /\ pomodoro = <<>>
    /\ now = 1
    /\ TasksIdle
    /\ call = NoCall

NextRepo ==
    \/ AddPomodoroCall
    \/ UpdatePomodoroCall
    \/ GetPomodoroCall

SpecRepo == InitRepo /\ [][NextRepo]_vars

\* ---------------------------------------------------------------------
\* Claims about the session store
\* ---------------------------------------------------------------------

\* this step is a call of repository function fn
CallOf(fn) == now' # now /\ call'.fn = fn

\* the rows of the table with the given id
RowsWithId(id) == {i \in DOMAIN pomodoro : pomodoro[i].id = id}

\* C14: update_pomodoro returns Ok only when exactly one row has the id of the
\* record, and so fails when no session has that id.
C14_UpdateStep ==
    (CallOf("update_pomodoro") /\ call'.res = "Ok") =>
        Cardinality(RowsWithId(call'.arg.id)) = 1

C14_MissingIdFails == [][C14_UpdateStep]_vars

\* C15: update_pomodoro called with a record whose status is Running fails and
\* leaves the table as it was, so that no row is Running with an end time.
C15_UpdateStep ==
    (CallOf("update_pomodoro") /\ call'.arg.status = "Running") =>
        (call'.res # "Ok" /\ pomodoro' = pomodoro)

C15_RunningRejected ==
    /\ [][C15_UpdateStep]_vars
    /\ [](\A i \in DOMAIN pomodoro :
             pomodoro[i].end_time # NULL => pomodoro[i].status # PomoStatus_to_usize("Running"))

\* what a successful add_pomodoro does apart from the status it stores: one row
\* appended with the next id, which is not zero, the instant of the call as
\* start time, no end time, the other columns from the record; the record
\* handed back carries that id and that start time and is otherwise unchanged
C16_Inserted ==
    LET row == pomodoro'[Len(pomodoro')]
        p == call'.arg
    IN  /\ pomodoro' = Append(pomodoro, row)
        /\ row.id = Len(pomodoro) + 1
        /\ row.id # 0
        /\ row.start_time = now
        /\ row.end_time = NULL
        /\ row.title = p.title
        /\ row.category = p.category
        /\ PomoType_from_usize(row.type) = p.pomo_type
        /\ call'.out = [p EXCEPT !.id = row.id, !.start_time = row.start_time]

\* C16 as amended: a successful add_pomodoro inserts the session with the
\* status the record carries and the instant of the call as start time.
C16_InsertStep ==
    (CallOf("add_pomodoro") /\ call'.res = "Ok") =>
        /\ C16_Inserted
        /\ PomoStatus_from_usize(pomodoro'[Len(pomodoro')].status) = call'.arg.status

C16_InsertsCarriedStatus == [][C16_InsertStep]_vars

\* C16 as stated: the session is inserted with status Running whatever status
\* the record carried.
C16_OriginalStep ==
    (CallOf("add_pomodoro") /\ call'.res = "Ok") =>
        /\ C16_Inserted
        /\ PomoStatus_from_usize(pomodoro'[Len(pomodoro')].status) = "Running"

C16_Original == [][C16_OriginalStep]_vars

\* a record that carried another start time than the clock was inserted
C16_Witness ==
    /\ call.fn = "add_pomodoro"
    /\ call.res = "Ok"
    /\ call.arg.start_time # call.out.start_time
    /\ call.out.id = Len(pomodoro)
    /\ pomodoro[call.out.id].start_time = call.out.start_time

\* the record parse_pomo_task is to build of a row
SessionOf(row) ==
    [id |-> row.id, title |-> row.title, pomo_type |-> PomoType_from_usize(row.type),
     duration |-> row.duration, category |-> row.category,
     status |-> PomoStatus_from_usize(row.status), end_time |-> row.end_time]

\* a session was created and then finalized
SomeFinalized == \E i \in DOMAIN pomodoro : pomodoro[i].end_time # NULL

\* C17: once a session was created and finalized, get_pomodoro, the store
\* answering, returns the newest sessions the limit allows, each with the
\* title, kind, duration, category and status of its row and with the end time
\* its finalization set.
C17_RoundTrip ==
    (call.fn = "get_pomodoro" /\ call.res # "Err" /\ SomeFinalized) =>
        /\ call.res = "Ok"
        /\ Len(call.out) = Min(call.arg.limit, Len(pomodoro))
        /\ \A k \in DOMAIN call.out :
               \E i \in DOMAIN pomodoro : call.out[k] = SessionOf(pomodoro[i])

\* ---------------------------------------------------------------------
\* Claims about adding a task and about validation
\* ---------------------------------------------------------------------

\* C18: a valid task added while the store answers is saved, and the record
\* handed back carries a non-zero id under which the table holds a task of the
\* same title, status, priority and category.
C18_SavedTaskHasIdentity ==
    (Ran("add") /\ Task_validate(cmd.args) = "Ok" /\ cmd.error # "get_connection") =>
        /\ cmd.outcome = "Ok"
        /\ cmd.rows[1].id # 0
        /\ cmd.rows[1].id \in DOMAIN tasks
        /\ LET saved == parse_task(tasks[cmd.rows[1].id])
           IN  /\ saved.title = cmd.rows[1].title
               /\ saved.status = cmd.rows[1].status
               /\ saved.priority = cmd.rows[1].priority
               /\ saved.category = cmd.rows[1].category

\* tasklog runs one command: a pomodoro session, or task commands one after
\* the other while no session has started
NextCmd ==
    \/ cmd = NoCommand /\ Next
    \/ pc = "start" /\ NextLs

SpecCmd == Init /\ [][NextCmd]_vars

\* the request of the command that ran in this step fails its validation
InvalidRequest ==
    /\ cmd = NoCommand
    /\ \/ cmd'.name = "ls" /\ LSArgs_validate(cmd'.args) # "Ok"
       \/ cmd'.name = "add" /\ Task_validate(cmd'.args) # "Ok"
       \/ cmd'.name = "analyze" /\ AnalyzeArgs_validate(cmd'.args) # "Ok"

\* neither table is written and the terminal and the workers are as they were
NothingTouched ==
    /\ tasks' = tasks
    /\ pomodoro' = pomodoro
    /\ term' = term
    /\ timer' = timer
    /\ watcher' = watcher

C20_CommandStep ==
    InvalidRequest =>
        /\ cmd'.outcome = "ValidationError"
        /\ cmd'.query = NoQuery
        /\ cmd'.rows = <<>>
        /\ NothingTouched

C20_SessionStep ==
    (pc = "start" /\ pc' # pc /\ PomoTask_validate(pomo_task) # "Ok") =>
        /\ pc' = "returned"
        /\ result' = "Err_validate"
        /\ NothingTouched

\* a session whose request was invalid: no row, no screen, no worker
C20_SessionState ==
    result = "Err_validate" =>
        /\ pomo_task.id = 0
        /\ term = TermInit
        /\ timer = TimerInit
        /\ watcher = WatcherInit

\* C20: a listing, an added task, an analysis or a session whose request fails
\* validation ends with that error in the step that validates it: no statement
\* is built or executed, no table changes, and the terminal and the workers
\* are untouched.
C20_ValidationFirst ==
    /\ [][C20_CommandStep /\ C20_SessionStep]_vars
    /\ []C20_SessionState

\* a task with a blank title was refused
C20_Witness ==
    /\ Ran("add")
    /\ cmd.args.title = ""
    /\ cmd.outcome = "ValidationError"
    /\ cmd.query = NoQuery

\* ---------------------------------------------------------------------
\* Claims about what finalizing writes
\* ---------------------------------------------------------------------

\* the columns of a pomodoro row that UPDATE_POMODORO does not name
KeptColumns(row) ==
    [id |-> row.id, type |-> row.type, title |-> row.title, duration |-> row.duration,
     category |-> row.category, start_time |-> row.start_time]

\* C21: update_pomodoro changes only status and end time of the session of the
\* record: title, kind, duration, category and start time of that session, and
\* every field of every other session, are as they were; no row is added or
\* removed.
C21_UpdateStep ==
    CallOf("update_pomodoro") =>
        /\ DOMAIN pomodoro' = DOMAIN pomodoro
        /\ \A i \in DOMAIN pomodoro :
             /\ KeptColumns(pomodoro'[i]) = KeptColumns(pomodoro[i])
             /\ pomodoro[i].id # call'.arg.id => pomodoro'[i] = pomodoro[i]

C21_OnlyStatusAndEndTime == [][C21_UpdateStep]_vars

\* a session of 25 minutes was finalized by a record that carries another
\* title and duration, while a second session is stored
C21_Witness ==
    /\ call.fn = "update_pomodoro"
    /\ call.res = "Ok"
    /\ Len(pomodoro) = 2
    /\ call.arg.id \in DOMAIN pomodoro
    /\ pomodoro[call.arg.id].end_time = Instant(call.arg.end_time)
    /\ pomodoro[call.arg.id].status = PomoStatus_to_usize(call.arg.status)
    /\ pomodoro[call.arg.id].title # call.arg.title
    /\ pomodoro[call.arg.id].duration # DurationField_to_i64(call.arg.duration)

\* ---------------------------------------------------------------------
\* models.rs: the integer codes of the enums
\* ---------------------------------------------------------------------

\* Priority::to_usize
Priority_to_usize(p) ==
    CASE p = "Low" -> 1
      [] p = "Medium" -> 2
      [] p = "High" -> 3
      [] p = "Urgent" -> 4

\* the enums stored as integers and their variants
Enums == {"TaskStatus", "Priority", "PomoType", "PomoStatus"}

Variants(e) ==
    CASE e = "TaskStatus" -> {"All", "Done", "Open"}
      [] e = "Priority" -> {"Low", "Medium", "High", "Urgent"}
      [] e = "PomoType" -> {"Rest", "Work"}
      [] e = "PomoStatus" -> {"Paused", "Finished", "Running"}

\* <enum>::to_usize(v)
to_usize(e, v) ==
    CASE e = "TaskStatus" -> TaskStatus_to_usize(v)
      [] e = "Priority" -> Priority_to_usize(v)
      [] e = "PomoType" -> PomoType_to_usize(v)
      [] e = "PomoStatus" -> PomoStatus_to_usize(v)

\* <enum>::from_usize(n)
from_usize(e, n) ==
    CASE e = "TaskStatus" -> TaskStatus_from_usize(n)
      [] e = "Priority" -> Priority_from_usize(n)
      [] e = "PomoType" -> PomoType_from_usize(n)
      [] e = "PomoStatus" -> PomoStatus_from_usize(n)

\* two values of one enum are encoded, as the store's parameters are
ToUsizeCall ==
    /\ now <= MaxCalls
    /\ \E e \in Enums : \E v \in Variants(e), w \in Variants(e) :
         Called("to_usize", [enum |-> e, values |-> <<v, w>>], "Ok",
                <<to_usize(e, v), to_usize(e, w)>>)
    /\ pomodoro' = pomodoro

\* the two integers are decoded, as the store's rows are
FromUsizeCall ==
    /\ now <= MaxCalls
    /\ call.fn = "to_usize"
    /\ Called("from_usize", call.arg, "Ok",
              call.out \o <<from_usize(call.arg.enum, call.out[1]),
                            from_usize(call.arg.enum, call.out[2])>>)
    /\ pomodoro' = pomodoro

InitEnum == InitRepo

NextEnum == ToUsizeCall \/ FromUsizeCall

SpecEnum == InitEnum /\ [][NextEnum]_vars

\* C22: for every value v of TaskStatus, Priority, PomoType and PomoStatus,
\* from_usize(to_usize(v)) = v, and to_usize gives different values different
\* integers: an encoded value decodes to itself.
C22_EnumRoundTrip ==
    /\ call.fn \in {"to_usize", "from_usize"} =>
         (call.arg.values[1] # call.arg.values[2] => call.out[1] # call.out[2])
    /\ call.fn = "from_usize" =>
         /\ call.out[3] = call.arg.values[1]
         /\ call.out[4] = call.arg.values[2]

\* PomoType::Rest, whose code 0 is not its discriminant 1, and PomoType::Work
\* were encoded and decoded
C22_Witness ==
    /\ call.fn = "from_usize"
    /\ call.arg.enum = "PomoType"
    /\ call.arg.values = <<"Rest", "Work">>
    /\ call.out = <<0, 1, "Rest", "Work">>

\* ---------------------------------------------------------------------
\* Claims about how the control loop ends
\* ---------------------------------------------------------------------

\* C23: a session is stored as Finished only if the Coordinator left its loop
\* by consuming a Clock report of exactly zero, without having seen a Quit: the
\* loop is left either with quited set or on a consumed zero, nothing after
\* the loop changes what the Coordinator knows, and a session stored as
\* Finished has quited unset and a last known remaining time of zero.
C23_LoopStep ==
    /\ (InLoop /\ pc' = "send_timer_quit") =>
          \/ app_state'.quited
          \/ /\ pc = "time"
             /\ time_update # <<>>
             /\ Head(time_update) = 0
             /\ time_update' = Tail(time_update)
             /\ app_state'.current_time = 0
    /\ AfterLoop => app_state' = app_state

C23_FinishedState ==
    (Created /\ StoredStatus = "Finished") =>
        /\ pc = "returned"
        /\ ~app_state.quited
        /\ app_state.current_time = 0

C23_FinishedOnlyOnZero == [][C23_LoopStep]_vars /\ []C23_FinishedState

\* a one-second session whose reports 1 and 0 were consumed is stored Finished
C23_Witness ==
    /\ pc = "returned"
    /\ Created
    /\ StoredStatus = "Finished"
    /\ pomo_task.duration = 1000
    /\ app_state.current_time = 0
    /\ time_update = <<>>
    /\ term.frame.secs = 0

\* ---------------------------------------------------------------------
\* Claims about the Clock (run_timer_thread)
\* ---------------------------------------------------------------------

\* initial_duration of control_terminal, in whole seconds
initial_duration == to_time_duration(pomo_task.duration)

\* successive reports decrease by exactly one second and none is below zero
CountsDown(reports) ==
    /\ \A i \in 1..(Len(reports) - 1) : reports[i + 1] = reports[i] - 1
    /\ \A i \in DOMAIN reports : reports[i] >= 0

\* C26 (as amended): each Clock tick reports the remaining duration and only
\* then, after its one-second wait, decrements it by one second (floored at
\* zero): for a requested duration D >= 1 s the first value the Clock reports
\* is D itself, and successive reports decrease by exactly one second and
\* never go below zero.
C26_ReportThenDecrement ==
    (initial_duration >= 1 /\ hist.reports # <<>>) =>
        /\ hist.reports[1] = initial_duration
        /\ CountsDown(hist.reports)

\* the Clock of the longest session has reported every value down to zero
C26_Witness ==
    /\ initial_duration = MaxSeconds
    /\ Len(hist.reports) = MaxSeconds + 1
    /\ hist.reports[1] = MaxSeconds
    /\ hist.reports[Len(hist.reports)] = 0

\* C26 as stated: the first value the Clock reports is D - 1 s, and successive
\* reports decrease by exactly one second and never go below zero
C26_Original ==
    (initial_duration >= 1 /\ hist.reports # <<>>) =>
        /\ hist.reports[1] = initial_duration - 1
        /\ CountsDown(hist.reports)

\* the last value the Clock reported is zero
ZeroReported == hist.reports # <<>> /\ hist.reports[Len(hist.reports)] = 0

\* C27: when the Clock's remaining duration has reached zero it reports zero
\* and exits in the same pass of its loop, without taking a stop signal from
\* its channel; zero is the last value the Clock ever reports. A Clock about
\* to send with zero remaining ends up exited, with zero as its last report
\* unless control_terminal has returned and dropped the receiver.
C27_ZeroStep ==
    (timer.pc = "send" /\ timer.current_duration = 0 /\ timer' # timer) =>
        /\ timer'.pc = "done"
        /\ timer_quit' = timer_quit
        /\ MainAlive => hist'.reports = Append(hist.reports, 0)

C27_ZeroIsLast ==
    /\ \A i \in DOMAIN hist.reports : hist.reports[i] = 0 => i = Len(hist.reports)
    /\ ZeroReported => timer.pc = "done"

C27_ZeroDue ==
    (timer.pc = "send" /\ timer.current_duration = 0)
        ~> (timer.pc = "done" /\ (ZeroReported \/ ~MainAlive))

C27_ZeroThenExit == [][C27_ZeroStep]_vars /\ []C27_ZeroIsLast /\ C27_ZeroDue

\* the Clock has reported zero and exited while the Coordinator is still in
\* its loop and has sent no stop signal
C27_Witness ==
    /\ ZeroReported
    /\ Len(hist.reports) > 1
    /\ timer.pc = "done"
    /\ InLoop
    /\ timer_quit = 0

\* the Clock takes a stop signal from its channel in this step
ClockObservesStop == timer_quit' < timer_quit

\* C28: a Clock that observes a stop signal, at the top of its loop or before
\* a sleep slice, exits in that step without reporting, and an exited Clock
\* never runs or reports again.
C28_StopStep ==
    /\ ClockObservesStop =>
          /\ timer.pc \in {"top", "sleep"}
          /\ timer'.pc = "done"
          /\ hist'.reports = hist.reports
          /\ time_update' = time_update
    /\ timer.pc = "done" =>
          /\ timer' = timer
          /\ hist'.reports = hist.reports

C28_StopEndsClock == [][C28_StopStep]_vars

\* the Clock took the stop signal during a sleep slice, after a report and
\* before zero, and the Coordinator is past its join
C28_Witness ==
    /\ pc = "join_event"
    /\ timer.pc = "done"
    /\ timer.slice > 0
    /\ timer.current_duration > 0
    /\ timer_quit = 0
    /\ hist.reports # <<>>
    /\ ~ZeroReported

\* ---------------------------------------------------------------------
\* Claims about shutdown latency
\* ---------------------------------------------------------------------

\* C29: once its stop signal is in its channel a worker starts nothing new.
\* The Clock's only steps are then its exit or the send it was about to make,
\* never a sleep slice; the Watcher's only steps are its exit or the poll it
\* had already begun, and that poll is followed by the stop check. Under fair
\* scheduling each worker whose stop signal is in its channel exits.
C29_StopStep ==
    /\ (timer_quit > 0 /\ timer' # timer) =>
          \/ timer'.pc = "done"
          \/ timer.pc = "send" /\ timer'.pc = "sleep" /\ timer'.slice = 0
    /\ (event_thread_quit > 0 /\ watcher' # watcher) =>
          \/ watcher'.pc = "done"
          \/ watcher.pc = "poll" /\ watcher'.pc = "top"

C29_ClockExits == (timer_quit > 0) ~> (timer.pc = "done")

C29_WatcherExits == (event_thread_quit > 0) ~> (watcher.pc = "done")

C29_StopWithinOneSlice ==
    [][C29_StopStep]_vars /\ C29_ClockExits /\ C29_WatcherExits

\* the Coordinator has sent the stop signal and waits for the Clock, which is
\* in the middle of its second of sleep
C29_Witness ==
    /\ pc = "join_timer"
    /\ timer_quit > 0
    /\ timer.pc = "sleep"
    /\ timer.slice > 0
    /\ timer.slice + 1 < SleepSlices

\* ---------------------------------------------------------------------
\* Claims about the Watcher (run_event_thread)
\* ---------------------------------------------------------------------

\* the Watcher puts an event into its channel in this step
WatcherSends == Len(event') > Len(event)

\* C30: the Watcher sends a Quit as one event and exits in the same step; it
\* sends nothing, Quit or Resize, once it has sent a Quit, so at most one Quit
\* over its lifetime; an exited Watcher never runs again.
C30_SendStep ==
    /\ WatcherSends =>
          /\ ~hist.quit_sent
          /\ Len(event') = Len(event) + 1
          /\ event'[Len(event')].type = "Quit" =>
                (watcher'.pc = "done" /\ hist'.quit_sent)
    /\ watcher.pc = "done" => watcher' = watcher

C30_QuitSentState == hist.quit_sent => watcher.pc = "done"

C30_OneQuitThenSilent == [][C30_SendStep]_vars /\ []C30_QuitSentState

\* the Watcher reported a resize, then a Quit, and has exited; both events are
\* still in the channel, the Quit last
C30_Witness ==
    /\ hist.quit_sent
    /\ watcher.pc = "done"
    /\ Len(event) = 2
    /\ event[1].type = "Resize"
    /\ event[2].type = "Quit"
    /\ InLoop

\* ---------------------------------------------------------------------
\* Claims about a failing terminal
\* ---------------------------------------------------------------------

\* C31: a pass of the Watcher in which the poll of the terminal fails, like
\* one in which the read fails, reports a Quit event and stops the Watcher
\* (while control_terminal is there to receive it), so the Watcher is never
\* left running after a terminal error.
C31_ErrorStep ==
    (MainAlive /\ watcher.pc = "poll" /\ watcher'.poll_failed) =>
        /\ event' = Append(event, QuitEvent)
        /\ watcher'.pc = "done"

C31_ErrorStopsWatcher == watcher.poll_failed => watcher.pc = "done"

C31_TerminalErrorQuits == [][C31_ErrorStep]_vars /\ []C31_ErrorStopsWatcher

\* ---------------------------------------------------------------------
\* Claims about shutdown
\* ---------------------------------------------------------------------

\* the Coordinator is at one of its two joins
Joining == pc \in {"join_timer", "join_event"}

\* C32: when the Coordinator joins, each worker has either exited or has its
\* stop signal in its channel or has taken it, both sends having come first;
\* and under fair scheduling a Coordinator that has left its loop gets past
\* both joins, whichever worker had exited and whatever is unread in the
\* reporting channels.
C32_SignalledBeforeJoin ==
    Joining =>
        /\ timer.pc = "done" \/ timer_quit > 0
        /\ watcher.pc = "done" \/ event_thread_quit > 0

C32_JoinsReturn == (pc = "send_timer_quit") ~> (pc = "leave_alt")

C32_ShutdownCompletes == []C32_SignalledBeforeJoin /\ C32_JoinsReturn

\* both joins have returned although the Watcher's channel still holds an
\* unread event; the Watcher was stopped by its signal
C32_Witness ==
    /\ pc = "leave_alt"
    /\ event # <<>>
    /\ ~hist.quit_sent
    /\ event_thread_quit = 0
    /\ WorkersStopped

\* the terminal is in raw mode, on the alternate screen, with the cursor hidden
TerminalAcquired == term.raw /\ term.alt /\ term.cursor_hidden

\* a worker thread has been spawned and has not finished
WorkerRunning ==
    \/ timer.pc \notin {"unspawned", "done"}
    \/ watcher.pc \notin {"unspawned", "done"}

\* C33: the terminal is acquired (raw mode, alternate screen, hidden cursor)
\* before the Clock and the Watcher are spawned and is released only after
\* both have been joined: while a worker is running the terminal is acquired,
\* and every step that gives up raw mode, the alternate screen or the hidden
\* cursor is taken with both workers finished.
C33_AcquiredWhileRunning == WorkerRunning => TerminalAcquired

C33_ReleaseStep ==
    (TerminalAcquired /\ ~TerminalAcquired') =>
        (WorkersStopped /\ pc \in {"leave_alt", "disable_raw"})

C33_SpawnStep ==
    (timer.pc = "unspawned" /\ timer'.pc # "unspawned") =>
        (TerminalAcquired /\ watcher.pc = "unspawned")

C33_TerminalScope ==
    []C33_AcquiredWhileRunning /\ [][C33_ReleaseStep /\ C33_SpawnStep]_vars

\* the terminal has been given back after a countdown that the Clock ended by
\* itself and a Watcher that was stopped by its signal
C33_Witness ==
    /\ pc = "finalize"
    /\ TerminalRestored
    /\ WorkersStopped
    /\ ZeroReported
    /\ term.redraws > 1

\* ---------------------------------------------------------------------
\* helper.rs draw_ui over the range of terminal sizes
\* ---------------------------------------------------------------------

\* terminal widths and heights around the box's and at the ends of u16
DrawWidths == {0, BOX_WIDTH - 1, BOX_WIDTH, BOX_WIDTH + 1, 80, U16 - 1}
DrawHeights == {0, BOX_HEIGHT - 1, BOX_HEIGHT, BOX_HEIGHT + 1, 24, U16 - 1}

\* the view states handed to draw_ui
ViewStates ==
    {[term_width |-> w, term_height |-> h, current_time |-> t, quited |-> FALSE] :
        w \in DrawWidths, h \in DrawHeights, t \in 0..MaxSeconds}

\* draw_ui(&mut stdout, &app_state)
DrawUi ==
    /\ term.redraws <= MaxResize
    /\ \E ok \in BOOLEAN : term' = draw_ui(term, app_state, ok)
    /\ term' # term
    /\ UNCHANGED <<pc, result, app_state, pomo_task, pomodoro, now, time_update, event,
                   timer_quit, event_thread_quit, timer, watcher, hist>>
    /\ UNCHANGED non_session_vars

\* the Resize arm: the new size is stored and the view is drawn again
ResizeDraw ==
    /\ term.redraws <= MaxResize
    /\ \E w \in DrawWidths, h \in DrawHeights, ok \in BOOLEAN :
         /\ app_state' = ResizedState(app_state, ResizeEvent(<<w, h>>))
         /\ term' = draw_ui(term, app_state', ok)
    /\ UNCHANGED <<pc, result, pomo_task, pomodoro, now, time_update, event,
                   timer_quit, event_thread_quit, timer, watcher, hist>>
    /\ UNCHANGED non_session_vars

InitDraw ==
    /\ pc = "first_draw"
    /\ result = "none"
    /\ term = [TermInit EXCEPT !.raw = TRUE, !.alt = TRUE, !.cursor_hidden = TRUE]
    /\ app_state \in ViewStates
    /\ pomo_task = NewPomoTask("focus", 1000 * MaxSeconds)
    /\ pomodoro = <<>>
    /\ now = 1
    /\ time_update = <<>>
    /\ event = <<>>
    /\ timer_quit = 0
    /\ event_thread_quit = 0
    /\ timer = TimerInit
    /\ watcher = WatcherInit
    /\ hist = HistInit
    /\ TasksIdle
    /\ call = NoCall

NextDraw == DrawUi \/ ResizeDraw

SpecDraw == InitDraw /\ [][NextDraw]_vars

\* where a box of the given length goes in a terminal of the given size
Centered(size, box) == IF size >= box THEN (size - box) \div 2 ELSE 0

\* C34: every draw puts the 40x4 box at column (width - 40) / 2 and row
\* (height - 4) / 2 of the view state it was given where the terminal is at
\* least as large as the box, and at 0 where it is smaller; the position
\* stays within the terminal's u16 range and is that of the state passed in,
\* whatever was on the screen before.
C34_DrawStep ==
    (term'.redraws > term.redraws) =>
        /\ term'.frame.col = Centered(app_state'.term_width, 40)
        /\ term'.frame.row = Centered(app_state'.term_height, 4)
        /\ term'.frame.col <= app_state'.term_width
        /\ term'.frame.row + 3 < U16
        /\ term'.frame.width = app_state'.term_width
        /\ term'.frame.height = app_state'.term_height

C34_BoxPlacement == [][C34_DrawStep]_vars

\* a terminal narrower and lower than the box was drawn at the top-left corner
\* after a frame that was centred
C34_Witness ==
    /\ term.redraws = 2
    /\ app_state.term_width = BOX_WIDTH - 1
    /\ app_state.term_height = BOX_HEIGHT - 1
    /\ term.frame.width = BOX_WIDTH - 1
    /\ term.frame.height = BOX_HEIGHT - 1
    /\ term.frame.col = 0
    /\ term.frame.row = 0

\* ---------------------------------------------------------------------
\* handle_pomodoro up to the view state, over the durations the parser accepts
\* ---------------------------------------------------------------------

\* DurationField::from_str takes any i64 with a unit: negative, zero,
\* sub-second and whole-second durations, in milliseconds
ParsedDurations == {-1500, -1000, 0, 1, 999} \cup {1000 * k : k \in 1..MaxSeconds}
                   \cup {1000 * MaxSeconds + 500}

InitSetup ==
    /\ ProcessInit
    /\ pomo_task \in {NewPomoTask(t, d) : t \in TitleInputs, d \in ParsedDurations}
    /\ pomodoro \in PriorTables
    /\ now = 1
    /\ TasksIdle
    /\ call = NoCall

NextSetup ==
    \/ Validate
    \/ AddPomodoro
    \/ ClearScreen
    \/ EnableRawMode
    \/ EnterAlternateScreen
    \/ TerminalSize

SpecSetup == InitSetup /\ [][NextSetup]_vars

\* control_terminal has built its AppState
ViewStateBuilt ==
    \/ pc \in {"spawn_timer", "spawn_event", "first_draw", "events", "time"}
    \/ AfterLoop /\ pc # "returned"
    \/ pc = "returned" /\ result \notin {"Err_validate", "Err_add_pomodoro"} \cup SetupFailures

\* the requested duration in whole seconds, rounded down
RequestedSeconds == pomo_task.duration \div 1000

\* C35: once the view state exists its remaining time never increases and
\* never exceeds the requested duration.
C35_ViewStep == ViewStateBuilt => app_state'.current_time <= app_state.current_time

C35_WithinRequested == ViewStateBuilt => app_state.current_time <= RequestedSeconds

C35_RemainingTimeBounded == [][C35_ViewStep]_vars /\ []C35_WithinRequested

\* C37: every duration that passes PomoTask::validate gives the view state an
\* initial remaining time equal to the requested duration and of at least one
\* second.
C37_ValidatedDurationCounts ==
    (ViewStateBuilt /\ PomoTask_validate(pomo_task) = "Ok") =>
        /\ pomo_task.duration % 1000 = 0
        /\ app_state.current_time = RequestedSeconds
        /\ app_state.current_time >= 1

\* ---------------------------------------------------------------------
\* Claims about the order of a Quit and the zero report
\* ---------------------------------------------------------------------

\* C36: if the Watcher enqueued its Quit before the Clock enqueued the zero
\* report (or the Clock never enqueued it), a session that is finalized is
\* finalized as Paused, whatever Resize events were queued ahead of the Quit.
C36_QuitFirstPaused ==
    (/\ pc = "returned"
     /\ result = "Ok"
     /\ Created
     /\ hist.quit_sent
     /\ ZeroReported => hist.quit_before_zero)
        => StoredStatus = "Paused"

\* ---------------------------------------------------------------------
\* models.rs: the declared discriminants; repository.rs: the column defaults
\* ---------------------------------------------------------------------

\* status as usize: enum TaskStatus { All = 2, Done = 1, Open = 0 }
TaskStatus_as_usize(s) ==
    CASE s = "All" -> 2
      [] s = "Done" -> 1
      [] s = "Open" -> 0

\* enum PomoType { Rest = 1, Work = 0 }
PomoType_as_usize(t) ==
    CASE t = "Rest" -> 1
      [] t = "Work" -> 0

\* enum PomoStatus { Paused = 1, Finished = 2, Running = 0 }
PomoStatus_as_usize(s) ==
    CASE s = "Paused" -> 1
      [] s = "Finished" -> 2
      [] s = "Running" -> 0

\* v as usize
as_usize(e, v) ==
    CASE e = "TaskStatus" -> TaskStatus_as_usize(v)
      [] e = "Priority" -> Priority_as_usize(v)
      [] e = "PomoType" -> PomoType_as_usize(v)
      [] e = "PomoStatus" -> PomoStatus_as_usize(v)

\* DEFAULT of the column that stores the enum
SchemaDefault(e) ==
    CASE e = "TaskStatus" -> 0
      [] e = "Priority" -> 2
      [] e = "PomoType" -> 0
      [] e = "PomoStatus" -> 0

\* the default value of the enum in the program
EnumDefault(e) ==
    CASE e = "TaskStatus" -> "Open"
      [] e = "Priority" -> "Medium"
      [] e = "PomoType" -> "Work"
      [] e = "PomoStatus" -> "Running"

\* C38: for each stored enum the integer to_usize produces is the declared
\* discriminant, the value `as usize` yields, and the default of the column
\* decodes to the default value of the enum.
C38_EncodingsAgree ==
    call.fn \in {"to_usize", "from_usize"} =>
        /\ call.out[1] = as_usize(call.arg.enum, call.arg.values[1])
        /\ call.out[2] = as_usize(call.arg.enum, call.arg.values[2])
        /\ from_usize(call.arg.enum, SchemaDefault(call.arg.enum))
              = EnumDefault(call.arg.enum)

\* ---------------------------------------------------------------------
\* C39: a session that was not persisted never reaches the terminal
\* ---------------------------------------------------------------------

\* the handler has not gone past add_pomodoro: the screen is not cleared
BeforeTerminal == pc \in {"start", "add_pomodoro", "returned"}

C39_FailStep ==
    (pc = "add_pomodoro" /\ ~Created') =>
        /\ pc' = "returned"
        /\ result' = "Err_add_pomodoro"
        /\ UNCHANGED <<term, timer, watcher, pomodoro, hist>>

C39_NothingStarted ==
    ~Created =>
        /\ BeforeTerminal
        /\ term = TermInit
        /\ timer.pc = "unspawned"
        /\ watcher.pc = "unspawned"
        /\ hist.reports = <<>>

\* C39: when add_pomodoro fails, handle_pomodoro returns that error at once:
\* the screen is not cleared, raw mode and the alternate screen are not
\* entered, neither worker is spawned, and no countdown runs for a session
\* that has no row.
C39_FailedAddStartsNothing == [][C39_FailStep]_vars /\ []C39_NothingStarted

C39_Witness ==
    /\ pc = "returned"
    /\ result = "Err_add_pomodoro"
    /\ ~Created
    /\ term = TermInit

\* ---------------------------------------------------------------------
\* C40: what tasklog done prints
\* ---------------------------------------------------------------------

\* C40: after a successful tasklog done the task printed has status Done: it
\* is the stored task after the update, not the task read before it.
C40_ReportsDoneTask ==
    (cmd.name = "done" /\ cmd.outcome = "Ok") =>
        /\ Len(cmd.rows) = 1
        /\ cmd.rows[1].status = "Done"
        /\ cmd.rows[1] = parse_task(tasks[cmd.args])

====
